---- MODULE Spec2Model ----
(***************************************************************************)
(* A model of eve-sde-to-sqlite: the table registry (schema/tables.rs),    *)
(* the dependency resolver (schema/dependencies.rs), the table filter      *)
(* (filter.rs) and the SQLite writer pipeline (writer/sqlite.rs).          *)
(*                                                                         *)
(* A `&'static TableSchema` is modelled by the name of the registry entry  *)
(* it points to; Option<T> is modelled as a sequence of length 0 or 1.     *)
(***************************************************************************)
EXTENDS Integers, Sequences, FiniteSets, TLC

None == <<>>
Some(x) == <<x>>

Range(s) == {s[i] : i \in DOMAIN s}

(***************************************************************************)
(* schema/types.rs                                                         *)
(***************************************************************************)
(* Supported languages for localized text *)
LANGUAGES == <<"en", "de", "es", "fr", "ja", "ko", "ru", "zh">>

(***************************************************************************)
(* schema/tables.rs: the table registry                                    *)
(***************************************************************************)
(* All table schemas in dependency order.  Each entry is the static of    *)
(* tables.rs named in the comment before it.                               *)
ALL_TABLES ==
  <<
    \* pub static CATEGORIES (lines 9-21)
    [ name |-> "categories",
      source_file |-> "categories.jsonl",
      columns |-> <<
          [name |-> "id", col_type |-> "Integer", nullable |-> FALSE, json_field |-> <<>>],
          [name |-> "name", col_type |-> "Localized", nullable |-> TRUE, json_field |-> <<>>],
          [name |-> "published", col_type |-> "Boolean", nullable |-> TRUE, json_field |-> <<>>]
      >>,
      foreign_keys |-> <<>>,
      indexes |-> <<
          [columns |-> <<"name_en">>, unique |-> FALSE],
          [columns |-> <<"published">>, unique |-> FALSE]
      >>,
      child_tables |-> <<>>,
      array_source |-> [kind |-> "None"] ],
    \* pub static DOGMA_ATTRIBUTE_CATEGORIES (lines 23-35)
    [ name |-> "dogma_attribute_categories",
      source_file |-> "dogmaAttributeCategories.jsonl",
      columns |-> <<
          [name |-> "id", col_type |-> "Integer", nullable |-> FALSE, json_field |-> <<>>],
          [name |-> "description", col_type |-> "Text", nullable |-> TRUE, json_field |-> <<>>],
          [name |-> "name", col_type |-> "Text", nullable |-> TRUE, json_field |-> <<>>]
      >>,
      foreign_keys |-> <<>>,
      indexes |-> <<
          [columns |-> <<"name">>, unique |-> FALSE]
      >>,
      child_tables |-> <<>>,
      array_source |-> [kind |-> "None"] ],
    \* pub static DOGMA_UNITS (lines 37-50)
    [ name |-> "dogma_units",
      source_file |-> "dogmaUnits.jsonl",
      columns |-> <<
          [name |-> "id", col_type |-> "Integer", nullable |-> FALSE, json_field |-> <<>>],
          [name |-> "description", col_type |-> "Text", nullable |-> TRUE, json_field |-> <<>>],
          [name |-> "display_name", col_type |-> "Text", nullable |-> TRUE, json_field |-> <<>>],
          [name |-> "name", col_type |-> "Text", nullable |-> TRUE, json_field |-> <<>>]
      >>,
      foreign_keys |-> <<>>,
      indexes |-> <<
          [columns |-> <<"name">>, unique |-> FALSE]
      >>,
      child_tables |-> <<>>,
      array_source |-> [kind |-> "None"] ],
    \* pub static ICONS (lines 52-64)
    [ name |-> "icons",
      source_file |-> "icons.jsonl",
      columns |-> <<
          [name |-> "id", col_type |-> "Integer", nullable |-> FALSE, json_field |-> <<>>],
          [name |-> "description", col_type |-> "Text", nullable |-> TRUE, json_field |-> <<>>],
          [name |-> "icon_file", col_type |-> "Text", nullable |-> TRUE, json_field |-> <<>>]
      >>,
      foreign_keys |-> <<>>,
      indexes |-> <<>>,
      child_tables |-> <<>>,
      array_source |-> [kind |-> "None"] ],
    \* pub static GRAPHICS (lines 66-81)
    [ name |-> "graphics",
      source_file |-> "graphics.jsonl",
      columns |-> <<
          [name |-> "id", col_type |-> "Integer", nullable |-> FALSE, json_field |-> <<>>],
          [name |-> "description", col_type |-> "Text", nullable |-> TRUE, json_field |-> <<>>],
          [name |-> "graphic_file", col_type |-> "Text", nullable |-> TRUE, json_field |-> <<>>],
          [name |-> "sof_faction_name", col_type |-> "Text", nullable |-> TRUE, json_field |-> <<>>],
          [name |-> "sof_hull_name", col_type |-> "Text", nullable |-> TRUE, json_field |-> <<>>],
          [name |-> "sof_race_name", col_type |-> "Text", nullable |-> TRUE, json_field |-> <<>>]
      >>,
      foreign_keys |-> <<>>,
      indexes |-> <<>>,
      child_tables |-> <<>>,
      array_source |-> [kind |-> "None"] ],
    \* pub static AGENT_TYPES (lines 83-94)
    [ name |-> "agent_types",
      source_file |-> "agentTypes.jsonl",
      columns |-> <<
          [name |-> "id", col_type |-> "Integer", nullable |-> FALSE, json_field |-> <<>>],
          [name |-> "name", col_type |-> "Text", nullable |-> TRUE, json_field |-> <<>>]
      >>,
      foreign_keys |-> <<>>,
      indexes |-> <<>>,
      child_tables |-> <<>>,
      array_source |-> [kind |-> "None"] ],
    \* pub static STATION_SERVICES (lines 96-107)
    [ name |-> "station_services",
      source_file |-> "stationServices.jsonl",
      columns |-> <<
          [name |-> "id", col_type |-> "Integer", nullable |-> FALSE, json_field |-> <<>>],
          [name |-> "service_name", col_type |-> "Text", nullable |-> TRUE, json_field |-> <<>>]
      >>,
      foreign_keys |-> <<>>,
      indexes |-> <<
          [columns |-> <<"service_name">>, unique |-> FALSE]
      >>,
      child_tables |-> <<>>,
      array_source |-> [kind |-> "None"] ],
    \* pub static CORPORATION_ACTIVITIES (lines 109-120)
    [ name |-> "corporation_activities",
      source_file |-> "corporationActivities.jsonl",
      columns |-> <<
          [name |-> "id", col_type |-> "Integer", nullable |-> FALSE, json_field |-> <<>>],
          [name |-> "name", col_type |-> "Localized", nullable |-> TRUE, json_field |-> <<>>]
      >>,
      foreign_keys |-> <<>>,
      indexes |-> <<
          [columns |-> <<"name_en">>, unique |-> FALSE]
      >>,
      child_tables |-> <<>>,
      array_source |-> [kind |-> "None"] ],
    \* pub static META_GROUPS (lines 122-136)
    [ name |-> "meta_groups",
      source_file |-> "metaGroups.jsonl",
      columns |-> <<
          [name |-> "id", col_type |-> "Integer", nullable |-> FALSE, json_field |-> <<>>],
          [name |-> "name", col_type |-> "Localized", nullable |-> TRUE, json_field |-> <<>>],
          [name |-> "description", col_type |-> "Localized", nullable |-> TRUE, json_field |-> <<>>],
          [name |-> "icon_id", col_type |-> "Integer", nullable |-> TRUE, json_field |-> <<>>],
          [name |-> "icon_suffix", col_type |-> "Text", nullable |-> TRUE, json_field |-> <<>>]
      >>,
      foreign_keys |-> <<>>,
      indexes |-> <<
          [columns |-> <<"name_en">>, unique |-> FALSE]
      >>,
      child_tables |-> <<>>,
      array_source |-> [kind |-> "None"] ],
    \* pub static CHARACTER_ATTRIBUTES (lines 138-153)
    [ name |-> "character_attributes",
      source_file |-> "characterAttributes.jsonl",
      columns |-> <<
          [name |-> "id", col_type |-> "Integer", nullable |-> FALSE, json_field |-> <<>>],
          [name |-> "name", col_type |-> "Localized", nullable |-> TRUE, json_field |-> <<>>],
          [name |-> "description", col_type |-> "Localized", nullable |-> TRUE, json_field |-> <<>>],
          [name |-> "short_description", col_type |-> "Localized", nullable |-> TRUE, json_field |-> <<>>],
          [name |-> "notes", col_type |-> "Text", nullable |-> TRUE, json_field |-> <<>>],
          [name |-> "icon_id", col_type |-> "Integer", nullable |-> TRUE, json_field |-> <<>>]
      >>,
      foreign_keys |-> <<>>,
      indexes |-> <<
          [columns |-> <<"name_en">>, unique |-> FALSE]
      >>,
      child_tables |-> <<>>,
      array_source |-> [kind |-> "None"] ],
    \* pub static TRANSLATION_LANGUAGES (lines 155-166)
    [ name |-> "translation_languages",
      source_file |-> "translationLanguages.jsonl",
      columns |-> <<
          [name |-> "id", col_type |-> "Integer", nullable |-> FALSE, json_field |-> <<>>],
          [name |-> "name", col_type |-> "Text", nullable |-> TRUE, json_field |-> <<>>]
      >>,
      foreign_keys |-> <<>>,
      indexes |-> <<>>,
      child_tables |-> <<>>,
      array_source |-> [kind |-> "None"] ],
    \* pub static SKIN_MATERIALS (lines 168-183)
    [ name |-> "skin_materials",
      source_file |-> "skinMaterials.jsonl",
      columns |-> <<
          [name |-> "id", col_type |-> "Integer", nullable |-> FALSE, json_field |-> <<>>],
          [name |-> "display_name", col_type |-> "Localized", nullable |-> TRUE, json_field |-> <<>>],
          [name |-> "material_set_id", col_type |-> "Integer", nullable |-> TRUE, json_field |-> <<>>]
      >>,
      foreign_keys |-> <<>>,
      indexes |-> <<
          [columns |-> <<"display_name_en">>, unique |-> FALSE],
          [columns |-> <<"material_set_id">>, unique |-> FALSE]
      >>,
      child_tables |-> <<>>,
      array_source |-> [kind |-> "None"] ],
    \* pub static LANDMARKS (lines 185-202)
    [ name |-> "landmarks",
      source_file |-> "landmarks.jsonl",
      columns |-> <<
          [name |-> "id", col_type |-> "Integer", nullable |-> FALSE, json_field |-> <<>>],
          [name |-> "name", col_type |-> "Localized", nullable |-> TRUE, json_field |-> <<>>],
          [name |-> "description", col_type |-> "Localized", nullable |-> TRUE, json_field |-> <<>>],
          [name |-> "importance", col_type |-> "Integer", nullable |-> TRUE, json_field |-> <<>>],
          [name |-> "location_id", col_type |-> "Integer", nullable |-> TRUE, json_field |-> <<>>],
          [name |-> "position_x", col_type |-> "Real", nullable |-> TRUE, json_field |-> <<>>],
          [name |-> "position_y", col_type |-> "Real", nullable |-> TRUE, json_field |-> <<>>],
          [name |-> "position_z", col_type |-> "Real", nullable |-> TRUE, json_field |-> <<>>]
      >>,
      foreign_keys |-> <<>>,
      indexes |-> <<
          [columns |-> <<"name_en">>, unique |-> FALSE],
          [columns |-> <<"location_id">>, unique |-> FALSE]
      >>,
      child_tables |-> <<>>,
      array_source |-> [kind |-> "None"] ],
    \* pub static NPC_CORPORATION_DIVISIONS (lines 204-218)
    [ name |-> "npc_corporation_divisions",
      source_file |-> "npcCorporationDivisions.jsonl",
      columns |-> <<
          [name |-> "id", col_type |-> "Integer", nullable |-> FALSE, json_field |-> <<>>],
          [name |-> "name", col_type |-> "Localized", nullable |-> TRUE, json_field |-> <<>>],
          [name |-> "display_name", col_type |-> "Text", nullable |-> TRUE, json_field |-> <<>>],
          [name |-> "internal_name", col_type |-> "Text", nullable |-> TRUE, json_field |-> <<>>],
          [name |-> "leader_type_name", col_type |-> "Localized", nullable |-> TRUE, json_field |-> <<>>]
      >>,
      foreign_keys |-> <<>>,
      indexes |-> <<
          [columns |-> <<"name_en">>, unique |-> FALSE]
      >>,
      child_tables |-> <<>>,
      array_source |-> [kind |-> "None"] ],
    \* pub static PLANET_RESOURCES (lines 220-231)
    [ name |-> "planet_resources",
      source_file |-> "planetResources.jsonl",
      columns |-> <<
          [name |-> "id", col_type |-> "Integer", nullable |-> FALSE, json_field |-> <<>>],
          [name |-> "power", col_type |-> "Integer", nullable |-> TRUE, json_field |-> <<>>]
      >>,
      foreign_keys |-> <<>>,
      indexes |-> <<>>,
      child_tables |-> <<>>,
      array_source |-> [kind |-> "None"] ],
    \* pub static CLONE_GRADES (lines 233-244)
    [ name |-> "clone_grades",
      source_file |-> "cloneGrades.jsonl",
      columns |-> <<
          [name |-> "id", col_type |-> "Integer", nullable |-> FALSE, json_field |-> <<>>],
          [name |-> "name", col_type |-> "Text", nullable |-> TRUE, json_field |-> <<>>]
      >>,
      foreign_keys |-> <<>>,
      indexes |-> <<>>,
      child_tables |-> <<"clone_grade_skills">>,
      array_source |-> [kind |-> "None"] ],
    \* pub static PLANET_SCHEMATICS (lines 246-258)
    [ name |-> "planet_schematics",
      source_file |-> "planetSchematics.jsonl",
      columns |-> <<
          [name |-> "id", col_type |-> "Integer", nullable |-> FALSE, json_field |-> <<>>],
          [name |-> "name", col_type |-> "Localized", nullable |-> TRUE, json_field |-> <<>>],
          [name |-> "cycle_time", col_type |-> "Integer", nullable |-> TRUE, json_field |-> <<>>]
      >>,
      foreign_keys |-> <<>>,
      indexes |-> <<
          [columns |-> <<"name_en">>, unique |-> FALSE]
      >>,
      child_tables |-> <<"planet_schematic_pins", "planet_schematic_types">>,
      array_source |-> [kind |-> "None"] ],
    \* pub static DBUFF_COLLECTIONS (lines 1378-1394)
    [ name |-> "dbuff_collections",
      source_file |-> "dbuffCollections.jsonl",
      columns |-> <<
          [name |-> "id", col_type |-> "Integer", nullable |-> FALSE, json_field |-> <<>>],
          [name |-> "aggregate_mode", col_type |-> "Text", nullable |-> TRUE, json_field |-> <<>>],
          [name |-> "developer_description", col_type |-> "Text", nullable |-> TRUE, json_field |-> <<>>]
      >>,
      foreign_keys |-> <<>>,
      indexes |-> <<>>,
      child_tables |-> <<"dbuff_item_modifiers", "dbuff_location_modifiers", "dbuff_location_group_modifiers">>,
      array_source |-> [kind |-> "None"] ],
    \* pub static FREELANCE_JOB_SCHEMAS (lines 1477-1489)
    [ name |-> "freelance_job_schemas",
      source_file |-> "freelanceJobSchemas.jsonl",
      columns |-> <<
          [name |-> "id", col_type |-> "Integer", nullable |-> FALSE, json_field |-> <<>>]
      >>,
      foreign_keys |-> <<>>,
      indexes |-> <<>>,
      child_tables |-> <<>>,
      array_source |-> [kind |-> "None"] ],
    \* pub static RACES (lines 264-278)
    [ name |-> "races",
      source_file |-> "races.jsonl",
      columns |-> <<
          [name |-> "id", col_type |-> "Integer", nullable |-> FALSE, json_field |-> <<>>],
          [name |-> "name", col_type |-> "Localized", nullable |-> TRUE, json_field |-> <<>>],
          [name |-> "description", col_type |-> "Localized", nullable |-> TRUE, json_field |-> <<>>],
          [name |-> "icon_id", col_type |-> "Integer", nullable |-> TRUE, json_field |-> <<>>],
          [name |-> "ship_type_id", col_type |-> "Integer", nullable |-> TRUE, json_field |-> <<>>]
      >>,
      foreign_keys |-> <<
          [column |-> "icon_id", references_table |-> "icons", references_column |-> "id"]
      >>,
      indexes |-> <<
          [columns |-> <<"name_en">>, unique |-> FALSE]
      >>,
      child_tables |-> <<>>,
      array_source |-> [kind |-> "None"] ],
    \* pub static GROUPS (lines 280-305)
    [ name |-> "groups",
      source_file |-> "groups.jsonl",
      columns |-> <<
          [name |-> "id", col_type |-> "Integer", nullable |-> FALSE, json_field |-> <<>>],
          [name |-> "name", col_type |-> "Localized", nullable |-> TRUE, json_field |-> <<>>],
          [name |-> "category_id", col_type |-> "Integer", nullable |-> TRUE, json_field |-> <<>>],
          [name |-> "published", col_type |-> "Boolean", nullable |-> TRUE, json_field |-> <<>>],
          [name |-> "anchorable", col_type |-> "Boolean", nullable |-> TRUE, json_field |-> <<>>],
          [name |-> "anchored", col_type |-> "Boolean", nullable |-> TRUE, json_field |-> <<>>],
          [name |-> "fittable_non_singleton", col_type |-> "Boolean", nullable |-> TRUE, json_field |-> <<>>],
          [name |-> "icon_id", col_type |-> "Integer", nullable |-> TRUE, json_field |-> <<>>],
          [name |-> "use_base_price", col_type |-> "Boolean", nullable |-> TRUE, json_field |-> <<>>]
      >>,
      foreign_keys |-> <<
          [column |-> "category_id", references_table |-> "categories", references_column |-> "id"],
          [column |-> "icon_id", references_table |-> "icons", references_column |-> "id"]
      >>,
      indexes |-> <<
          [columns |-> <<"category_id">>, unique |-> FALSE],
          [columns |-> <<"name_en">>, unique |-> FALSE],
          [columns |-> <<"published">>, unique |-> FALSE]
      >>,
      child_tables |-> <<>>,
      array_source |-> [kind |-> "None"] ],
    \* pub static DOGMA_ATTRIBUTES (lines 307-339)
    [ name |-> "dogma_attributes",
      source_file |-> "dogmaAttributes.jsonl",
      columns |-> <<
          [name |-> "id", col_type |-> "Integer", nullable |-> FALSE, json_field |-> <<>>],
          [name |-> "name", col_type |-> "Text", nullable |-> TRUE, json_field |-> <<>>],
          [name |-> "description", col_type |-> "Text", nullable |-> TRUE, json_field |-> <<>>],
          [name |-> "display_name", col_type |-> "Localized", nullable |-> TRUE, json_field |-> <<>>],
          [name |-> "tooltip_title", col_type |-> "Localized", nullable |-> TRUE, json_field |-> <<>>],
          [name |-> "tooltip_description", col_type |-> "Localized", nullable |-> TRUE, json_field |-> <<>>],
          [name |-> "attribute_category_id", col_type |-> "Integer", nullable |-> TRUE, json_field |-> <<>>],
          [name |-> "data_type", col_type |-> "Integer", nullable |-> TRUE, json_field |-> <<>>],
          [name |-> "default_value", col_type |-> "Real", nullable |-> TRUE, json_field |-> <<>>],
          [name |-> "display_when_zero", col_type |-> "Boolean", nullable |-> TRUE, json_field |-> <<>>],
          [name |-> "high_is_good", col_type |-> "Boolean", nullable |-> TRUE, json_field |-> <<>>],
          [name |-> "icon_id", col_type |-> "Integer", nullable |-> TRUE, json_field |-> <<>>],
          [name |-> "published", col_type |-> "Boolean", nullable |-> TRUE, json_field |-> <<>>],
          [name |-> "stackable", col_type |-> "Boolean", nullable |-> TRUE, json_field |-> <<>>],
          [name |-> "unit_id", col_type |-> "Integer", nullable |-> TRUE, json_field |-> <<>>]
      >>,
      foreign_keys |-> <<
          [column |-> "attribute_category_id", references_table |-> "dogma_attribute_categories", references_column |-> "id"],
          [column |-> "icon_id", references_table |-> "icons", references_column |-> "id"],
          [column |-> "unit_id", references_table |-> "dogma_units", references_column |-> "id"]
      >>,
      indexes |-> <<
          [columns |-> <<"unit_id">>, unique |-> FALSE],
          [columns |-> <<"name">>, unique |-> FALSE],
          [columns |-> <<"published">>, unique |-> FALSE]
      >>,
      child_tables |-> <<>>,
      array_source |-> [kind |-> "None"] ],
    \* pub static DOGMA_EFFECTS (lines 341-378)
    [ name |-> "dogma_effects",
      source_file |-> "dogmaEffects.jsonl",
      columns |-> <<
          [name |-> "id", col_type |-> "Integer", nullable |-> FALSE, json_field |-> <<>>],
          [name |-> "name", col_type |-> "Text", nullable |-> TRUE, json_field |-> <<>>],
          [name |-> "description", col_type |-> "Text", nullable |-> TRUE, json_field |-> <<>>],
          [name |-> "display_name", col_type |-> "Localized", nullable |-> TRUE, json_field |-> <<>>],
          [name |-> "effect_category", col_type |-> "Integer", nullable |-> TRUE, json_field |-> <<>>],
          [name |-> "effect_name", col_type |-> "Text", nullable |-> TRUE, json_field |-> <<>>],
          [name |-> "guid", col_type |-> "Text", nullable |-> TRUE, json_field |-> <<>>],
          [name |-> "icon_id", col_type |-> "Integer", nullable |-> TRUE, json_field |-> <<>>],
          [name |-> "is_assistance", col_type |-> "Boolean", nullable |-> TRUE, json_field |-> <<>>],
          [name |-> "is_offensive", col_type |-> "Boolean", nullable |-> TRUE, json_field |-> <<>>],
          [name |-> "is_warp_safe", col_type |-> "Boolean", nullable |-> TRUE, json_field |-> <<>>],
          [name |-> "published", col_type |-> "Boolean", nullable |-> TRUE, json_field |-> <<>>],
          [name |-> "range_chance", col_type |-> "Boolean", nullable |-> TRUE, json_field |-> <<>>],
          [name |-> "electronic_chance", col_type |-> "Boolean", nullable |-> TRUE, json_field |-> <<>>],
          [name |-> "propulsion_chance", col_type |-> "Boolean", nullable |-> TRUE, json_field |-> <<>>],
          [name |-> "disallow_auto_repeat", col_type |-> "Boolean", nullable |-> TRUE, json_field |-> <<>>],
          [name |-> "distribution", col_type |-> "Integer", nullable |-> TRUE, json_field |-> <<>>],
          [name |-> "duration_attribute_id", col_type |-> "Integer", nullable |-> TRUE, json_field |-> <<>>],
          [name |-> "discharge_attribute_id", col_type |-> "Integer", nullable |-> TRUE, json_field |-> <<>>],
          [name |-> "falloff_attribute_id", col_type |-> "Integer", nullable |-> TRUE, json_field |-> <<>>],
          [name |-> "range_attribute_id", col_type |-> "Integer", nullable |-> TRUE, json_field |-> <<>>],
          [name |-> "tracking_speed_attribute_id", col_type |-> "Integer", nullable |-> TRUE, json_field |-> <<>>],
          [name |-> "fitting_usage_chance_attribute_id", col_type |-> "Integer", nullable |-> TRUE, json_field |-> <<>>],
          [name |-> "resistance_attribute_id", col_type |-> "Integer", nullable |-> TRUE, json_field |-> <<>>]
      >>,
      foreign_keys |-> <<
          [column |-> "icon_id", references_table |-> "icons", references_column |-> "id"]
      >>,
      indexes |-> <<
          [columns |-> <<"icon_id">>, unique |-> FALSE],
          [columns |-> <<"name">>, unique |-> FALSE],
          [columns |-> <<"published">>, unique |-> FALSE]
      >>,
      child_tables |-> <<>>,
      array_source |-> [kind |-> "None"] ],
    \* pub static MAP_REGIONS (lines 380-406)
    [ name |-> "map_regions",
      source_file |-> "mapRegions.jsonl",
      columns |-> <<
          [name |-> "id", col_type |-> "Integer", nullable |-> FALSE, json_field |-> <<>>],
          [name |-> "name", col_type |-> "Localized", nullable |-> TRUE, json_field |-> <<>>],
          [name |-> "description", col_type |-> "Localized", nullable |-> TRUE, json_field |-> <<>>],
          [name |-> "faction_id", col_type |-> "Integer", nullable |-> TRUE, json_field |-> <<>>],
          [name |-> "center_x", col_type |-> "Real", nullable |-> TRUE, json_field |-> <<>>],
          [name |-> "center_y", col_type |-> "Real", nullable |-> TRUE, json_field |-> <<>>],
          [name |-> "center_z", col_type |-> "Real", nullable |-> TRUE, json_field |-> <<>>],
          [name |-> "max_x", col_type |-> "Real", nullable |-> TRUE, json_field |-> <<>>],
          [name |-> "max_y", col_type |-> "Real", nullable |-> TRUE, json_field |-> <<>>],
          [name |-> "max_z", col_type |-> "Real", nullable |-> TRUE, json_field |-> <<>>],
          [name |-> "min_x", col_type |-> "Real", nullable |-> TRUE, json_field |-> <<>>],
          [name |-> "min_y", col_type |-> "Real", nullable |-> TRUE, json_field |-> <<>>],
          [name |-> "min_z", col_type |-> "Real", nullable |-> TRUE, json_field |-> <<>>],
          [name |-> "name_id", col_type |-> "Integer", nullable |-> TRUE, json_field |-> <<>>],
          [name |-> "description_id", col_type |-> "Integer", nullable |-> TRUE, json_field |-> <<>>],
          [name |-> "nebula", col_type |-> "Integer", nullable |-> TRUE, json_field |-> <<>>],
          [name |-> "wormhole_class_id", col_type |-> "Integer", nullable |-> TRUE, json_field |-> <<>>]
      >>,
      foreign_keys |-> <<>>,
      indexes |-> <<
          [columns |-> <<"faction_id">>, unique |-> FALSE],
          [columns |-> <<"name_en">>, unique |-> FALSE]
      >>,
      child_tables |-> <<>>,
      array_source |-> [kind |-> "None"] ],
    \* pub static MARKET_GROUPS (lines 408-430)
    [ name |-> "market_groups",
      source_file |-> "marketGroups.jsonl",
      columns |-> <<
          [name |-> "id", col_type |-> "Integer", nullable |-> FALSE, json_field |-> <<>>],
          [name |-> "name", col_type |-> "Localized", nullable |-> TRUE, json_field |-> <<>>],
          [name |-> "description", col_type |-> "Localized", nullable |-> TRUE, json_field |-> <<>>],
          [name |-> "icon_id", col_type |-> "Integer", nullable |-> TRUE, json_field |-> <<>>],
          [name |-> "parent_group_id", col_type |-> "Integer", nullable |-> TRUE, json_field |-> <<>>],
          [name |-> "has_types", col_type |-> "Boolean", nullable |-> TRUE, json_field |-> <<>>]
      >>,
      foreign_keys |-> <<
          [column |-> "icon_id", references_table |-> "icons", references_column |-> "id"],
          [column |-> "parent_group_id", references_table |-> "market_groups", references_column |-> "id"]
      >>,
      indexes |-> <<
          [columns |-> <<"parent_group_id">>, unique |-> FALSE],
          [columns |-> <<"icon_id">>, unique |-> FALSE],
          [columns |-> <<"name_en">>, unique |-> FALSE]
      >>,
      child_tables |-> <<>>,
      array_source |-> [kind |-> "None"] ],
    \* pub static STATION_OPERATIONS (lines 432-455)
    [ name |-> "station_operations",
      source_file |-> "stationOperations.jsonl",
      columns |-> <<
          [name |-> "id", col_type |-> "Integer", nullable |-> FALSE, json_field |-> <<>>],
          [name |-> "operation_name", col_type |-> "Localized", nullable |-> TRUE, json_field |-> <<>>],
          [name |-> "description", col_type |-> "Localized", nullable |-> TRUE, json_field |-> <<>>],
          [name |-> "activity_id", col_type |-> "Integer", nullable |-> TRUE, json_field |-> <<>>],
          [name |-> "border", col_type |-> "Real", nullable |-> TRUE, json_field |-> <<>>],
          [name |-> "corridor", col_type |-> "Real", nullable |-> TRUE, json_field |-> <<>>],
          [name |-> "fringe", col_type |-> "Real", nullable |-> TRUE, json_field |-> <<>>],
          [name |-> "hub", col_type |-> "Real", nullable |-> TRUE, json_field |-> <<>>],
          [name |-> "ratio", col_type |-> "Real", nullable |-> TRUE, json_field |-> <<>>],
          [name |-> "manufacturing_factor", col_type |-> "Real", nullable |-> TRUE, json_field |-> <<>>],
          [name |-> "research_factor", col_type |-> "Real", nullable |-> TRUE, json_field |-> <<>>]
      >>,
      foreign_keys |-> <<>>,
      indexes |-> <<
          [columns |-> <<"activity_id">>, unique |-> FALSE],
          [columns |-> <<"operation_name_en">>, unique |-> FALSE]
      >>,
      child_tables |-> <<>>,
      array_source |-> [kind |-> "None"] ],
    \* pub static SKINS (lines 457-472)
    [ name |-> "skins",
      source_file |-> "skins.jsonl",
      columns |-> <<
          [name |-> "id", col_type |-> "Integer", nullable |-> FALSE, json_field |-> <<>>],
          [name |-> "internal_name", col_type |-> "Text", nullable |-> TRUE, json_field |-> <<>>],
          [name |-> "skin_material_id", col_type |-> "Integer", nullable |-> TRUE, json_field |-> <<>>],
          [name |-> "allow_ccp_devs", col_type |-> "Boolean", nullable |-> TRUE, json_field |-> <<>>],
          [name |-> "visible_serenity", col_type |-> "Boolean", nullable |-> TRUE, json_field |-> <<>>],
          [name |-> "visible_tranquility", col_type |-> "Boolean", nullable |-> TRUE, json_field |-> <<>>]
      >>,
      foreign_keys |-> <<
          [column |-> "skin_material_id", references_table |-> "skin_materials", references_column |-> "id"]
      >>,
      indexes |-> <<
          [columns |-> <<"skin_material_id">>, unique |-> FALSE]
      >>,
      child_tables |-> <<>>,
      array_source |-> [kind |-> "None"] ],
    \* pub static BLOODLINES (lines 478-505)
    [ name |-> "bloodlines",
      source_file |-> "bloodlines.jsonl",
      columns |-> <<
          [name |-> "id", col_type |-> "Integer", nullable |-> FALSE, json_field |-> <<>>],
          [name |-> "name", col_type |-> "Localized", nullable |-> TRUE, json_field |-> <<>>],
          [name |-> "description", col_type |-> "Localized", nullable |-> TRUE, json_field |-> <<>>],
          [name |-> "race_id", col_type |-> "Integer", nullable |-> TRUE, json_field |-> <<>>],
          [name |-> "corporation_id", col_type |-> "Integer", nullable |-> TRUE, json_field |-> <<>>],
          [name |-> "charisma", col_type |-> "Integer", nullable |-> TRUE, json_field |-> <<>>],
          [name |-> "intelligence", col_type |-> "Integer", nullable |-> TRUE, json_field |-> <<>>],
          [name |-> "memory", col_type |-> "Integer", nullable |-> TRUE, json_field |-> <<>>],
          [name |-> "perception", col_type |-> "Integer", nullable |-> TRUE, json_field |-> <<>>],
          [name |-> "willpower", col_type |-> "Integer", nullable |-> TRUE, json_field |-> <<>>],
          [name |-> "icon_id", col_type |-> "Integer", nullable |-> TRUE, json_field |-> <<>>]
      >>,
      foreign_keys |-> <<
          [column |-> "race_id", references_table |-> "races", references_column |-> "id"],
          [column |-> "icon_id", references_table |-> "icons", references_column |-> "id"]
      >>,
      indexes |-> <<
          [columns |-> <<"race_id">>, unique |-> FALSE],
          [columns |-> <<"corporation_id">>, unique |-> FALSE],
          [columns |-> <<"name_en">>, unique |-> FALSE]
      >>,
      child_tables |-> <<>>,
      array_source |-> [kind |-> "None"] ],
    \* pub static FACTIONS (lines 507-532)
    [ name |-> "factions",
      source_file |-> "factions.jsonl",
      columns |-> <<
          [name |-> "id", col_type |-> "Integer", nullable |-> FALSE, json_field |-> <<>>],
          [name |-> "name", col_type |-> "Localized", nullable |-> TRUE, json_field |-> <<>>],
          [name |-> "description", col_type |-> "Localized", nullable |-> TRUE, json_field |-> <<>>],
          [name |-> "short_description", col_type |-> "Localized", nullable |-> TRUE, json_field |-> <<>>],
          [name |-> "corporation_id", col_type |-> "Integer", nullable |-> TRUE, json_field |-> <<>>],
          [name |-> "militia_corporation_id", col_type |-> "Integer", nullable |-> TRUE, json_field |-> <<>>],
          [name |-> "solar_system_id", col_type |-> "Integer", nullable |-> TRUE, json_field |-> <<>>],
          [name |-> "icon_id", col_type |-> "Integer", nullable |-> TRUE, json_field |-> <<>>],
          [name |-> "size_factor", col_type |-> "Real", nullable |-> TRUE, json_field |-> <<>>],
          [name |-> "unique_name", col_type |-> "Boolean", nullable |-> TRUE, json_field |-> <<>>]
      >>,
      foreign_keys |-> <<
          [column |-> "icon_id", references_table |-> "icons", references_column |-> "id"]
      >>,
      indexes |-> <<
          [columns |-> <<"icon_id">>, unique |-> FALSE],
          [columns |-> <<"solar_system_id">>, unique |-> FALSE],
          [columns |-> <<"corporation_id">>, unique |-> FALSE],
          [columns |-> <<"militia_corporation_id">>, unique |-> FALSE],
          [columns |-> <<"name_en">>, unique |-> FALSE]
      >>,
      child_tables |-> <<>>,
      array_source |-> [kind |-> "None"] ],
    \* pub static NPC_CORPORATIONS (lines 534-561)
    [ name |-> "npc_corporations",
      source_file |-> "npcCorporations.jsonl",
      columns |-> <<
          [name |-> "id", col_type |-> "Integer", nullable |-> FALSE, json_field |-> <<>>],
          [name |-> "name", col_type |-> "Localized", nullable |-> TRUE, json_field |-> <<>>],
          [name |-> "description", col_type |-> "Localized", nullable |-> TRUE, json_field |-> <<>>],
          [name |-> "ceo_id", col_type |-> "Integer", nullable |-> TRUE, json_field |-> <<>>],
          [name |-> "station_id", col_type |-> "Integer", nullable |-> TRUE, json_field |-> <<>>],
          [name |-> "ticker_name", col_type |-> "Text", nullable |-> TRUE, json_field |-> <<>>],
          [name |-> "unique_name", col_type |-> "Boolean", nullable |-> TRUE, json_field |-> <<>>],
          [name |-> "deleted", col_type |-> "Boolean", nullable |-> TRUE, json_field |-> <<>>],
          [name |-> "extent", col_type |-> "Text", nullable |-> TRUE, json_field |-> <<>>],
          [name |-> "has_player_personnel_manager", col_type |-> "Boolean", nullable |-> TRUE, json_field |-> <<>>],
          [name |-> "initial_price", col_type |-> "Real", nullable |-> TRUE, json_field |-> <<>>],
          [name |-> "member_limit", col_type |-> "Integer", nullable |-> TRUE, json_field |-> <<>>],
          [name |-> "min_security", col_type |-> "Real", nullable |-> TRUE, json_field |-> <<>>],
          [name |-> "minimum_join_standing", col_type |-> "Real", nullable |-> TRUE, json_field |-> <<>>],
          [name |-> "send_char_termination_message", col_type |-> "Boolean", nullable |-> TRUE, json_field |-> <<>>],
          [name |-> "shares", col_type |-> "Integer", nullable |-> TRUE, json_field |-> <<>>],
          [name |-> "size", col_type |-> "Text", nullable |-> TRUE, json_field |-> <<>>],
          [name |-> "tax_rate", col_type |-> "Real", nullable |-> TRUE, json_field |-> <<>>]
      >>,
      foreign_keys |-> <<>>,
      indexes |-> <<
          [columns |-> <<"name_en">>, unique |-> FALSE],
          [columns |-> <<"ticker_name">>, unique |-> FALSE]
      >>,
      child_tables |-> <<>>,
      array_source |-> [kind |-> "None"] ],
    \* pub static MAP_CONSTELLATIONS (lines 563-590)
    [ name |-> "map_constellations",
      source_file |-> "mapConstellations.jsonl",
      columns |-> <<
          [name |-> "id", col_type |-> "Integer", nullable |-> FALSE, json_field |-> <<>>],
          [name |-> "name", col_type |-> "Localized", nullable |-> TRUE, json_field |-> <<>>],
          [name |-> "region_id", col_type |-> "Integer", nullable |-> TRUE, json_field |-> <<>>],
          [name |-> "faction_id", col_type |-> "Integer", nullable |-> TRUE, json_field |-> <<>>],
          [name |-> "center_x", col_type |-> "Real", nullable |-> TRUE, json_field |-> <<>>],
          [name |-> "center_y", col_type |-> "Real", nullable |-> TRUE, json_field |-> <<>>],
          [name |-> "center_z", col_type |-> "Real", nullable |-> TRUE, json_field |-> <<>>],
          [name |-> "max_x", col_type |-> "Real", nullable |-> TRUE, json_field |-> <<>>],
          [name |-> "max_y", col_type |-> "Real", nullable |-> TRUE, json_field |-> <<>>],
          [name |-> "max_z", col_type |-> "Real", nullable |-> TRUE, json_field |-> <<>>],
          [name |-> "min_x", col_type |-> "Real", nullable |-> TRUE, json_field |-> <<>>],
          [name |-> "min_y", col_type |-> "Real", nullable |-> TRUE, json_field |-> <<>>],
          [name |-> "min_z", col_type |-> "Real", nullable |-> TRUE, json_field |-> <<>>],
          [name |-> "radius", col_type |-> "Real", nullable |-> TRUE, json_field |-> <<>>]
      >>,
      foreign_keys |-> <<
          [column |-> "region_id", references_table |-> "map_regions", references_column |-> "id"]
      >>,
      indexes |-> <<
          [columns |-> <<"region_id">>, unique |-> FALSE],
          [columns |-> <<"faction_id">>, unique |-> FALSE],
          [columns |-> <<"name_en">>, unique |-> FALSE]
      >>,
      child_tables |-> <<>>,
      array_source |-> [kind |-> "None"] ],
    \* pub static TYPES (lines 592-638)
    [ name |-> "types",
      source_file |-> "types.jsonl",
      columns |-> <<
          [name |-> "id", col_type |-> "Integer", nullable |-> FALSE, json_field |-> <<>>],
          [name |-> "name", col_type |-> "Localized", nullable |-> TRUE, json_field |-> <<>>],
          [name |-> "description", col_type |-> "Localized", nullable |-> TRUE, json_field |-> <<>>],
          [name |-> "group_id", col_type |-> "Integer", nullable |-> TRUE, json_field |-> <<>>],
          [name |-> "graphic_id", col_type |-> "Integer", nullable |-> TRUE, json_field |-> <<>>],
          [name |-> "icon_id", col_type |-> "Integer", nullable |-> TRUE, json_field |-> <<>>],
          [name |-> "market_group_id", col_type |-> "Integer", nullable |-> TRUE, json_field |-> <<>>],
          [name |-> "meta_group_id", col_type |-> "Integer", nullable |-> TRUE, json_field |-> <<>>],
          [name |-> "mass", col_type |-> "Real", nullable |-> TRUE, json_field |-> <<>>],
          [name |-> "volume", col_type |-> "Real", nullable |-> TRUE, json_field |-> <<>>],
          [name |-> "radius", col_type |-> "Real", nullable |-> TRUE, json_field |-> <<>>],
          [name |-> "packaged_volume", col_type |-> "Real", nullable |-> TRUE, json_field |-> <<>>],
          [name |-> "portion_size", col_type |-> "Integer", nullable |-> TRUE, json_field |-> <<>>],
          [name |-> "capacity", col_type |-> "Real", nullable |-> TRUE, json_field |-> <<>>],
          [name |-> "base_price", col_type |-> "Real", nullable |-> TRUE, json_field |-> <<>>],
          [name |-> "published", col_type |-> "Boolean", nullable |-> TRUE, json_field |-> <<>>],
          [name |-> "race_id", col_type |-> "Integer", nullable |-> TRUE, json_field |-> <<>>],
          [name |-> "faction_id", col_type |-> "Integer", nullable |-> TRUE, json_field |-> <<>>],
          [name |-> "sof_faction_name", col_type |-> "Text", nullable |-> TRUE, json_field |-> <<>>],
          [name |-> "sound_id", col_type |-> "Integer", nullable |-> TRUE, json_field |-> <<>>],
          [name |-> "variation_parent_type_id", col_type |-> "Integer", nullable |-> TRUE, json_field |-> <<>>]
      >>,
      foreign_keys |-> <<
          [column |-> "group_id", references_table |-> "groups", references_column |-> "id"],
          [column |-> "graphic_id", references_table |-> "graphics", references_column |-> "id"],
          [column |-> "icon_id", references_table |-> "icons", references_column |-> "id"],
          [column |-> "market_group_id", references_table |-> "market_groups", references_column |-> "id"],
          [column |-> "meta_group_id", references_table |-> "meta_groups", references_column |-> "id"],
          [column |-> "race_id", references_table |-> "races", references_column |-> "id"]
      >>,
      indexes |-> <<
          [columns |-> <<"group_id">>, unique |-> FALSE],
          [columns |-> <<"graphic_id">>, unique |-> FALSE],
          [columns |-> <<"icon_id">>, unique |-> FALSE],
          [columns |-> <<"market_group_id">>, unique |-> FALSE],
          [columns |-> <<"meta_group_id">>, unique |-> FALSE],
          [columns |-> <<"race_id">>, unique |-> FALSE],
          [columns |-> <<"name_en">>, unique |-> FALSE],
          [columns |-> <<"published">>, unique |-> FALSE]
      >>,
      child_tables |-> <<>>,
      array_source |-> [kind |-> "None"] ],
    \* pub static SOVEREIGNTY_UPGRADES (lines 687-706)
    [ name |-> "sovereignty_upgrades",
      source_file |-> "sovereigntyUpgrades.jsonl",
      columns |-> <<
          [name |-> "id", col_type |-> "Integer", nullable |-> FALSE, json_field |-> <<>>],
          [name |-> "fuel_type_id", col_type |-> "Integer", nullable |-> TRUE, json_field |-> <<>>],
          [name |-> "fuel_hourly_upkeep", col_type |-> "Integer", nullable |-> TRUE, json_field |-> <<>>],
          [name |-> "fuel_startup_cost", col_type |-> "Integer", nullable |-> TRUE, json_field |-> <<>>],
          [name |-> "mutually_exclusive_group", col_type |-> "Text", nullable |-> TRUE, json_field |-> <<>>],
          [name |-> "power_allocation", col_type |-> "Integer", nullable |-> TRUE, json_field |-> <<>>],
          [name |-> "workforce_allocation", col_type |-> "Integer", nullable |-> TRUE, json_field |-> <<>>]
      >>,
      foreign_keys |-> <<
          [column |-> "id", references_table |-> "types", references_column |-> "id"],
          [column |-> "fuel_type_id", references_table |-> "types", references_column |-> "id"]
      >>,
      indexes |-> <<
          [columns |-> <<"fuel_type_id">>, unique |-> FALSE]
      >>,
      child_tables |-> <<>>,
      array_source |-> [kind |-> "None"] ],
    \* pub static ANCESTRIES (lines 712-739)
    [ name |-> "ancestries",
      source_file |-> "ancestries.jsonl",
      columns |-> <<
          [name |-> "id", col_type |-> "Integer", nullable |-> FALSE, json_field |-> <<>>],
          [name |-> "name", col_type |-> "Localized", nullable |-> TRUE, json_field |-> <<>>],
          [name |-> "description", col_type |-> "Localized", nullable |-> TRUE, json_field |-> <<>>],
          [name |-> "short_description", col_type |-> "Localized", nullable |-> TRUE, json_field |-> <<>>],
          [name |-> "bloodline_id", col_type |-> "Integer", nullable |-> TRUE, json_field |-> <<>>],
          [name |-> "charisma", col_type |-> "Integer", nullable |-> TRUE, json_field |-> <<>>],
          [name |-> "intelligence", col_type |-> "Integer", nullable |-> TRUE, json_field |-> <<>>],
          [name |-> "memory", col_type |-> "Integer", nullable |-> TRUE, json_field |-> <<>>],
          [name |-> "perception", col_type |-> "Integer", nullable |-> TRUE, json_field |-> <<>>],
          [name |-> "willpower", col_type |-> "Integer", nullable |-> TRUE, json_field |-> <<>>],
          [name |-> "icon_id", col_type |-> "Integer", nullable |-> TRUE, json_field |-> <<>>]
      >>,
      foreign_keys |-> <<
          [column |-> "bloodline_id", references_table |-> "bloodlines", references_column |-> "id"],
          [column |-> "icon_id", references_table |-> "icons", references_column |-> "id"]
      >>,
      indexes |-> <<
          [columns |-> <<"bloodline_id">>, unique |-> FALSE],
          [columns |-> <<"icon_id">>, unique |-> FALSE],
          [columns |-> <<"name_en">>, unique |-> FALSE]
      >>,
      child_tables |-> <<>>,
      array_source |-> [kind |-> "None"] ],
    \* pub static MAP_SOLAR_SYSTEMS (lines 741-776)
    [ name |-> "map_solar_systems",
      source_file |-> "mapSolarSystems.jsonl",
      columns |-> <<
          [name |-> "id", col_type |-> "Integer", nullable |-> FALSE, json_field |-> <<>>],
          [name |-> "name", col_type |-> "Localized", nullable |-> TRUE, json_field |-> <<>>],
          [name |-> "constellation_id", col_type |-> "Integer", nullable |-> TRUE, json_field |-> <<>>],
          [name |-> "region_id", col_type |-> "Integer", nullable |-> TRUE, json_field |-> <<>>],
          [name |-> "star_id", col_type |-> "Integer", nullable |-> TRUE, json_field |-> <<>>],
          [name |-> "security_status", col_type |-> "Real", nullable |-> TRUE, json_field |-> <<>>],
          [name |-> "security_class", col_type |-> "Text", nullable |-> TRUE, json_field |-> <<>>],
          [name |-> "luminosity", col_type |-> "Real", nullable |-> TRUE, json_field |-> <<>>],
          [name |-> "radius", col_type |-> "Real", nullable |-> TRUE, json_field |-> <<>>],
          [name |-> "border", col_type |-> "Boolean", nullable |-> TRUE, json_field |-> <<>>],
          [name |-> "corridor", col_type |-> "Boolean", nullable |-> TRUE, json_field |-> <<>>],
          [name |-> "fringe", col_type |-> "Boolean", nullable |-> TRUE, json_field |-> <<>>],
          [name |-> "hub", col_type |-> "Boolean", nullable |-> TRUE, json_field |-> <<>>],
          [name |-> "international", col_type |-> "Boolean", nullable |-> TRUE, json_field |-> <<>>],
          [name |-> "regional", col_type |-> "Boolean", nullable |-> TRUE, json_field |-> <<>>],
          [name |-> "position_x", col_type |-> "Real", nullable |-> TRUE, json_field |-> <<>>],
          [name |-> "position_y", col_type |-> "Real", nullable |-> TRUE, json_field |-> <<>>],
          [name |-> "position_z", col_type |-> "Real", nullable |-> TRUE, json_field |-> <<>>]
      >>,
      foreign_keys |-> <<
          [column |-> "constellation_id", references_table |-> "map_constellations", references_column |-> "id"],
          [column |-> "region_id", references_table |-> "map_regions", references_column |-> "id"]
      >>,
      indexes |-> <<
          [columns |-> <<"constellation_id">>, unique |-> FALSE],
          [columns |-> <<"star_id">>, unique |-> FALSE],
          [columns |-> <<"name_en">>, unique |-> FALSE],
          [columns |-> <<"security_status">>, unique |-> FALSE]
      >>,
      child_tables |-> <<>>,
      array_source |-> [kind |-> "None"] ],
    \* pub static BLUEPRINTS (lines 778-800)
    [ name |-> "blueprints",
      source_file |-> "blueprints.jsonl",
      columns |-> <<
          [name |-> "id", col_type |-> "Integer", nullable |-> FALSE, json_field |-> <<>>],
          [name |-> "blueprint_type_id", col_type |-> "Integer", nullable |-> TRUE, json_field |-> <<>>],
          [name |-> "max_production_limit", col_type |-> "Integer", nullable |-> TRUE, json_field |-> <<>>],
          [name |-> "copying_time", col_type |-> "Integer", nullable |-> TRUE, json_field |-> <<>>],
          [name |-> "manufacturing_time", col_type |-> "Integer", nullable |-> TRUE, json_field |-> <<>>],
          [name |-> "research_material_time", col_type |-> "Integer", nullable |-> TRUE, json_field |-> <<>>],
          [name |-> "research_time_time", col_type |-> "Integer", nullable |-> TRUE, json_field |-> <<>>],
          [name |-> "invention_time", col_type |-> "Integer", nullable |-> TRUE, json_field |-> <<>>],
          [name |-> "reaction_time", col_type |-> "Integer", nullable |-> TRUE, json_field |-> <<>>]
      >>,
      foreign_keys |-> <<
          [column |-> "blueprint_type_id", references_table |-> "types", references_column |-> "id"]
      >>,
      indexes |-> <<
          [columns |-> <<"blueprint_type_id">>, unique |-> FALSE]
      >>,
      child_tables |-> <<"blueprint_materials", "blueprint_products", "blueprint_skills">>,
      array_source |-> [kind |-> "None"] ],
    \* pub static SKIN_LICENSES (lines 802-818)
    [ name |-> "skin_licenses",
      source_file |-> "skinLicenses.jsonl",
      columns |-> <<
          [name |-> "id", col_type |-> "Integer", nullable |-> FALSE, json_field |-> <<>>],
          [name |-> "license_type_id", col_type |-> "Integer", nullable |-> TRUE, json_field |-> <<>>],
          [name |-> "skin_id", col_type |-> "Integer", nullable |-> TRUE, json_field |-> <<>>],
          [name |-> "duration", col_type |-> "Integer", nullable |-> TRUE, json_field |-> <<>>]
      >>,
      foreign_keys |-> <<
          [column |-> "license_type_id", references_table |-> "types", references_column |-> "id"],
          [column |-> "skin_id", references_table |-> "skins", references_column |-> "id"]
      >>,
      indexes |-> <<
          [columns |-> <<"skin_id">>, unique |-> FALSE]
      >>,
      child_tables |-> <<>>,
      array_source |-> [kind |-> "None"] ],
    \* pub static CERTIFICATES (lines 820-833)
    [ name |-> "certificates",
      source_file |-> "certificates.jsonl",
      columns |-> <<
          [name |-> "id", col_type |-> "Integer", nullable |-> FALSE, json_field |-> <<>>],
          [name |-> "name", col_type |-> "Localized", nullable |-> TRUE, json_field |-> <<>>],
          [name |-> "description", col_type |-> "Localized", nullable |-> TRUE, json_field |-> <<>>],
          [name |-> "group_id", col_type |-> "Integer", nullable |-> TRUE, json_field |-> <<>>]
      >>,
      foreign_keys |-> <<
          [column |-> "group_id", references_table |-> "groups", references_column |-> "id"]
      >>,
      indexes |-> <<
          [columns |-> <<"name_en">>, unique |-> FALSE]
      >>,
      child_tables |-> <<>>,
      array_source |-> [kind |-> "None"] ],
    \* pub static COMPRESSIBLE_TYPES (lines 640-654)
    [ name |-> "compressible_types",
      source_file |-> "compressibleTypes.jsonl",
      columns |-> <<
          [name |-> "id", col_type |-> "Integer", nullable |-> FALSE, json_field |-> <<>>],
          [name |-> "compressed_type_id", col_type |-> "Integer", nullable |-> TRUE, json_field |-> <<>>]
      >>,
      foreign_keys |-> <<
          [column |-> "id", references_table |-> "types", references_column |-> "id"],
          [column |-> "compressed_type_id", references_table |-> "types", references_column |-> "id"]
      >>,
      indexes |-> <<
          [columns |-> <<"compressed_type_id">>, unique |-> FALSE]
      >>,
      child_tables |-> <<>>,
      array_source |-> [kind |-> "None"] ],
    \* pub static NPC_CHARACTERS (lines 656-684)
    [ name |-> "npc_characters",
      source_file |-> "npcCharacters.jsonl",
      columns |-> <<
          [name |-> "id", col_type |-> "Integer", nullable |-> FALSE, json_field |-> <<>>],
          [name |-> "name", col_type |-> "Localized", nullable |-> TRUE, json_field |-> <<>>],
          [name |-> "bloodline_id", col_type |-> "Integer", nullable |-> TRUE, json_field |-> <<>>],
          [name |-> "corporation_id", col_type |-> "Integer", nullable |-> TRUE, json_field |-> <<>>],
          [name |-> "race_id", col_type |-> "Integer", nullable |-> TRUE, json_field |-> <<>>],
          [name |-> "location_id", col_type |-> "Integer", nullable |-> TRUE, json_field |-> <<>>],
          [name |-> "ceo", col_type |-> "Boolean", nullable |-> TRUE, json_field |-> <<>>],
          [name |-> "gender", col_type |-> "Boolean", nullable |-> TRUE, json_field |-> <<>>],
          [name |-> "start_date", col_type |-> "Text", nullable |-> TRUE, json_field |-> <<>>],
          [name |-> "unique_name", col_type |-> "Boolean", nullable |-> TRUE, json_field |-> <<>>]
      >>,
      foreign_keys |-> <<
          [column |-> "bloodline_id", references_table |-> "bloodlines", references_column |-> "id"],
          [column |-> "corporation_id", references_table |-> "npc_corporations", references_column |-> "id"],
          [column |-> "race_id", references_table |-> "races", references_column |-> "id"]
      >>,
      indexes |-> <<
          [columns |-> <<"bloodline_id">>, unique |-> FALSE],
          [columns |-> <<"corporation_id">>, unique |-> FALSE],
          [columns |-> <<"race_id">>, unique |-> FALSE],
          [columns |-> <<"name_en">>, unique |-> FALSE]
      >>,
      child_tables |-> <<>>,
      array_source |-> [kind |-> "None"] ],
    \* pub static MAP_STARS (lines 839-861)
    [ name |-> "map_stars",
      source_file |-> "mapStars.jsonl",
      columns |-> <<
          [name |-> "id", col_type |-> "Integer", nullable |-> FALSE, json_field |-> <<>>],
          [name |-> "solar_system_id", col_type |-> "Integer", nullable |-> TRUE, json_field |-> <<>>],
          [name |-> "type_id", col_type |-> "Integer", nullable |-> TRUE, json_field |-> <<>>],
          [name |-> "age", col_type |-> "Real", nullable |-> TRUE, json_field |-> <<>>],
          [name |-> "life", col_type |-> "Real", nullable |-> TRUE, json_field |-> <<>>],
          [name |-> "locked", col_type |-> "Boolean", nullable |-> TRUE, json_field |-> <<>>],
          [name |-> "luminosity", col_type |-> "Real", nullable |-> TRUE, json_field |-> <<>>],
          [name |-> "radius", col_type |-> "Real", nullable |-> TRUE, json_field |-> <<>>],
          [name |-> "spectral_class", col_type |-> "Text", nullable |-> TRUE, json_field |-> <<>>],
          [name |-> "temperature", col_type |-> "Real", nullable |-> TRUE, json_field |-> <<>>]
      >>,
      foreign_keys |-> <<
          [column |-> "solar_system_id", references_table |-> "map_solar_systems", references_column |-> "id"],
          [column |-> "type_id", references_table |-> "types", references_column |-> "id"]
      >>,
      indexes |-> <<
          [columns |-> <<"solar_system_id">>, unique |-> FALSE]
      >>,
      child_tables |-> <<>>,
      array_source |-> [kind |-> "None"] ],
    \* pub static MAP_PLANETS (lines 863-886)
    [ name |-> "map_planets",
      source_file |-> "mapPlanets.jsonl",
      columns |-> <<
          [name |-> "id", col_type |-> "Integer", nullable |-> FALSE, json_field |-> <<>>],
          [name |-> "name", col_type |-> "Localized", nullable |-> TRUE, json_field |-> <<>>],
          [name |-> "solar_system_id", col_type |-> "Integer", nullable |-> TRUE, json_field |-> <<>>],
          [name |-> "type_id", col_type |-> "Integer", nullable |-> TRUE, json_field |-> <<>>],
          [name |-> "celestial_index", col_type |-> "Integer", nullable |-> TRUE, json_field |-> <<>>],
          [name |-> "orbit_id", col_type |-> "Integer", nullable |-> TRUE, json_field |-> <<>>],
          [name |-> "orbit_index", col_type |-> "Integer", nullable |-> TRUE, json_field |-> <<>>],
          [name |-> "radius", col_type |-> "Real", nullable |-> TRUE, json_field |-> <<>>],
          [name |-> "position_x", col_type |-> "Real", nullable |-> TRUE, json_field |-> <<>>],
          [name |-> "position_y", col_type |-> "Real", nullable |-> TRUE, json_field |-> <<>>],
          [name |-> "position_z", col_type |-> "Real", nullable |-> TRUE, json_field |-> <<>>]
      >>,
      foreign_keys |-> <<
          [column |-> "solar_system_id", references_table |-> "map_solar_systems", references_column |-> "id"],
          [column |-> "type_id", references_table |-> "types", references_column |-> "id"]
      >>,
      indexes |-> <<
          [columns |-> <<"solar_system_id">>, unique |-> FALSE],
          [columns |-> <<"type_id">>, unique |-> FALSE]
      >>,
      child_tables |-> <<>>,
      array_source |-> [kind |-> "None"] ],
    \* pub static MAP_MOONS (lines 888-912)
    [ name |-> "map_moons",
      source_file |-> "mapMoons.jsonl",
      columns |-> <<
          [name |-> "id", col_type |-> "Integer", nullable |-> FALSE, json_field |-> <<>>],
          [name |-> "solar_system_id", col_type |-> "Integer", nullable |-> TRUE, json_field |-> <<>>],
          [name |-> "planet_id", col_type |-> "Integer", nullable |-> TRUE, json_field |-> <<>>],
          [name |-> "type_id", col_type |-> "Integer", nullable |-> TRUE, json_field |-> <<>>],
          [name |-> "celestial_index", col_type |-> "Integer", nullable |-> TRUE, json_field |-> <<>>],
          [name |-> "orbit_id", col_type |-> "Integer", nullable |-> TRUE, json_field |-> <<>>],
          [name |-> "orbit_index", col_type |-> "Integer", nullable |-> TRUE, json_field |-> <<>>],
          [name |-> "radius", col_type |-> "Real", nullable |-> TRUE, json_field |-> <<>>],
          [name |-> "position_x", col_type |-> "Real", nullable |-> TRUE, json_field |-> <<>>],
          [name |-> "position_y", col_type |-> "Real", nullable |-> TRUE, json_field |-> <<>>],
          [name |-> "position_z", col_type |-> "Real", nullable |-> TRUE, json_field |-> <<>>]
      >>,
      foreign_keys |-> <<
          [column |-> "solar_system_id", references_table |-> "map_solar_systems", references_column |-> "id"],
          [column |-> "planet_id", references_table |-> "map_planets", references_column |-> "id"],
          [column |-> "type_id", references_table |-> "types", references_column |-> "id"]
      >>,
      indexes |-> <<
          [columns |-> <<"planet_id">>, unique |-> FALSE],
          [columns |-> <<"type_id">>, unique |-> FALSE]
      >>,
      child_tables |-> <<>>,
      array_source |-> [kind |-> "None"] ],
    \* pub static MAP_ASTEROID_BELTS (lines 914-937)
    [ name |-> "map_asteroid_belts",
      source_file |-> "mapAsteroidBelts.jsonl",
      columns |-> <<
          [name |-> "id", col_type |-> "Integer", nullable |-> FALSE, json_field |-> <<>>],
          [name |-> "solar_system_id", col_type |-> "Integer", nullable |-> TRUE, json_field |-> <<>>],
          [name |-> "planet_id", col_type |-> "Integer", nullable |-> TRUE, json_field |-> <<>>],
          [name |-> "type_id", col_type |-> "Integer", nullable |-> TRUE, json_field |-> <<>>],
          [name |-> "celestial_index", col_type |-> "Integer", nullable |-> TRUE, json_field |-> <<>>],
          [name |-> "orbit_id", col_type |-> "Integer", nullable |-> TRUE, json_field |-> <<>>],
          [name |-> "orbit_index", col_type |-> "Integer", nullable |-> TRUE, json_field |-> <<>>],
          [name |-> "position_x", col_type |-> "Real", nullable |-> TRUE, json_field |-> <<>>],
          [name |-> "position_y", col_type |-> "Real", nullable |-> TRUE, json_field |-> <<>>],
          [name |-> "position_z", col_type |-> "Real", nullable |-> TRUE, json_field |-> <<>>]
      >>,
      foreign_keys |-> <<
          [column |-> "solar_system_id", references_table |-> "map_solar_systems", references_column |-> "id"],
          [column |-> "planet_id", references_table |-> "map_planets", references_column |-> "id"],
          [column |-> "type_id", references_table |-> "types", references_column |-> "id"]
      >>,
      indexes |-> <<
          [columns |-> <<"planet_id">>, unique |-> FALSE]
      >>,
      child_tables |-> <<>>,
      array_source |-> [kind |-> "None"] ],
    \* pub static MAP_STARGATES (lines 939-964)
    [ name |-> "map_stargates",
      source_file |-> "mapStargates.jsonl",
      columns |-> <<
          [name |-> "id", col_type |-> "Integer", nullable |-> FALSE, json_field |-> <<>>],
          [name |-> "solar_system_id", col_type |-> "Integer", nullable |-> TRUE, json_field |-> <<>>],
          [name |-> "type_id", col_type |-> "Integer", nullable |-> TRUE, json_field |-> <<>>],
          [name |-> "destination_stargate_id", col_type |-> "Integer", nullable |-> TRUE, json_field |-> <<>>],
          [name |-> "destination_solar_system_id", col_type |-> "Integer", nullable |-> TRUE, json_field |-> <<>>],
          [name |-> "position_x", col_type |-> "Real", nullable |-> TRUE, json_field |-> <<>>],
          [name |-> "position_y", col_type |-> "Real", nullable |-> TRUE, json_field |-> <<>>],
          [name |-> "position_z", col_type |-> "Real", nullable |-> TRUE, json_field |-> <<>>]
      >>,
      foreign_keys |-> <<
          [column |-> "solar_system_id", references_table |-> "map_solar_systems", references_column |-> "id"],
          [column |-> "type_id", references_table |-> "types", references_column |-> "id"],
          [column |-> "destination_solar_system_id", references_table |-> "map_solar_systems", references_column |-> "id"]
      >>,
      indexes |-> <<
          [columns |-> <<"solar_system_id">>, unique |-> FALSE],
          [columns |-> <<"destination_stargate_id">>, unique |-> FALSE],
          [columns |-> <<"type_id">>, unique |-> FALSE]
      >>,
      child_tables |-> <<>>,
      array_source |-> [kind |-> "None"] ],
    \* pub static NPC_STATIONS (lines 966-1000)
    [ name |-> "npc_stations",
      source_file |-> "npcStations.jsonl",
      columns |-> <<
          [name |-> "id", col_type |-> "Integer", nullable |-> FALSE, json_field |-> <<>>],
          [name |-> "solar_system_id", col_type |-> "Integer", nullable |-> TRUE, json_field |-> <<>>],
          [name |-> "type_id", col_type |-> "Integer", nullable |-> TRUE, json_field |-> <<>>],
          [name |-> "owner_id", col_type |-> "Integer", nullable |-> TRUE, json_field |-> <<>>],
          [name |-> "operation_id", col_type |-> "Integer", nullable |-> TRUE, json_field |-> <<>>],
          [name |-> "orbit_id", col_type |-> "Integer", nullable |-> TRUE, json_field |-> <<>>],
          [name |-> "celestial_index", col_type |-> "Integer", nullable |-> TRUE, json_field |-> <<>>],
          [name |-> "orbit_index", col_type |-> "Integer", nullable |-> TRUE, json_field |-> <<>>],
          [name |-> "reprocessing_efficiency", col_type |-> "Real", nullable |-> TRUE, json_field |-> <<>>],
          [name |-> "reprocessing_hangar_flag", col_type |-> "Integer", nullable |-> TRUE, json_field |-> <<>>],
          [name |-> "reprocessing_stations_take", col_type |-> "Real", nullable |-> TRUE, json_field |-> <<>>],
          [name |-> "use_operation_name", col_type |-> "Boolean", nullable |-> TRUE, json_field |-> <<>>],
          [name |-> "position_x", col_type |-> "Real", nullable |-> TRUE, json_field |-> <<>>],
          [name |-> "position_y", col_type |-> "Real", nullable |-> TRUE, json_field |-> <<>>],
          [name |-> "position_z", col_type |-> "Real", nullable |-> TRUE, json_field |-> <<>>]
      >>,
      foreign_keys |-> <<
          [column |-> "solar_system_id", references_table |-> "map_solar_systems", references_column |-> "id"],
          [column |-> "type_id", references_table |-> "types", references_column |-> "id"],
          [column |-> "owner_id", references_table |-> "npc_corporations", references_column |-> "id"],
          [column |-> "operation_id", references_table |-> "station_operations", references_column |-> "id"]
      >>,
      indexes |-> <<
          [columns |-> <<"solar_system_id">>, unique |-> FALSE],
          [columns |-> <<"operation_id">>, unique |-> FALSE],
          [columns |-> <<"type_id">>, unique |-> FALSE],
          [columns |-> <<"owner_id">>, unique |-> FALSE]
      >>,
      child_tables |-> <<>>,
      array_source |-> [kind |-> "None"] ],
    \* pub static AGENTS_IN_SPACE (lines 1002-1019)
    [ name |-> "agents_in_space",
      source_file |-> "agentsInSpace.jsonl",
      columns |-> <<
          [name |-> "id", col_type |-> "Integer", nullable |-> FALSE, json_field |-> <<>>],
          [name |-> "dungeon_id", col_type |-> "Integer", nullable |-> TRUE, json_field |-> <<>>],
          [name |-> "solar_system_id", col_type |-> "Integer", nullable |-> TRUE, json_field |-> <<>>],
          [name |-> "spawn_point_id", col_type |-> "Integer", nullable |-> TRUE, json_field |-> <<>>],
          [name |-> "type_id", col_type |-> "Integer", nullable |-> TRUE, json_field |-> <<>>]
      >>,
      foreign_keys |-> <<
          [column |-> "solar_system_id", references_table |-> "map_solar_systems", references_column |-> "id"],
          [column |-> "type_id", references_table |-> "types", references_column |-> "id"]
      >>,
      indexes |-> <<
          [columns |-> <<"solar_system_id">>, unique |-> FALSE],
          [columns |-> <<"type_id">>, unique |-> FALSE]
      >>,
      child_tables |-> <<>>,
      array_source |-> [kind |-> "None"] ],
    \* pub static TYPE_DOGMA_ATTRIBUTES (lines 1025-1043)
    [ name |-> "type_dogma_attributes",
      source_file |-> "typeDogma.jsonl",
      columns |-> <<
          [name |-> "type_id", col_type |-> "Integer", nullable |-> FALSE, json_field |-> <<>>],
          [name |-> "attribute_id", col_type |-> "Integer", nullable |-> FALSE, json_field |-> <<>>],
          [name |-> "value", col_type |-> "Real", nullable |-> FALSE, json_field |-> <<>>]
      >>,
      foreign_keys |-> <<
          [column |-> "type_id", references_table |-> "types", references_column |-> "id"],
          [column |-> "attribute_id", references_table |-> "dogma_attributes", references_column |-> "id"]
      >>,
      indexes |-> <<
          [columns |-> <<"type_id">>, unique |-> FALSE],
          [columns |-> <<"attribute_id">>, unique |-> FALSE]
      >>,
      child_tables |-> <<>>,
      array_source |-> [kind |-> "Simple", array_field |-> "dogmaAttributes", parent_id_column |-> "type_id"] ],
    \* pub static TYPE_DOGMA_EFFECTS (lines 1045-1063)
    [ name |-> "type_dogma_effects",
      source_file |-> "typeDogma.jsonl",
      columns |-> <<
          [name |-> "type_id", col_type |-> "Integer", nullable |-> FALSE, json_field |-> <<>>],
          [name |-> "effect_id", col_type |-> "Integer", nullable |-> FALSE, json_field |-> <<>>],
          [name |-> "is_default", col_type |-> "Boolean", nullable |-> TRUE, json_field |-> <<>>]
      >>,
      foreign_keys |-> <<
          [column |-> "type_id", references_table |-> "types", references_column |-> "id"],
          [column |-> "effect_id", references_table |-> "dogma_effects", references_column |-> "id"]
      >>,
      indexes |-> <<
          [columns |-> <<"type_id">>, unique |-> FALSE],
          [columns |-> <<"effect_id">>, unique |-> FALSE]
      >>,
      child_tables |-> <<>>,
      array_source |-> [kind |-> "Simple", array_field |-> "dogmaEffects", parent_id_column |-> "type_id"] ],
    \* pub static TYPE_MATERIALS (lines 1065-1083)
    [ name |-> "type_materials",
      source_file |-> "typeMaterials.jsonl",
      columns |-> <<
          [name |-> "type_id", col_type |-> "Integer", nullable |-> FALSE, json_field |-> <<>>],
          [name |-> "material_type_id", col_type |-> "Integer", nullable |-> FALSE, json_field |-> <<>>],
          [name |-> "quantity", col_type |-> "Integer", nullable |-> FALSE, json_field |-> <<>>]
      >>,
      foreign_keys |-> <<
          [column |-> "type_id", references_table |-> "types", references_column |-> "id"],
          [column |-> "material_type_id", references_table |-> "types", references_column |-> "id"]
      >>,
      indexes |-> <<
          [columns |-> <<"type_id">>, unique |-> FALSE],
          [columns |-> <<"material_type_id">>, unique |-> FALSE]
      >>,
      child_tables |-> <<>>,
      array_source |-> [kind |-> "Simple", array_field |-> "materials", parent_id_column |-> "type_id"] ],
    \* pub static BLUEPRINT_MATERIALS (lines 1085-1108)
    [ name |-> "blueprint_materials",
      source_file |-> "blueprints.jsonl",
      columns |-> <<
          [name |-> "blueprint_id", col_type |-> "Integer", nullable |-> FALSE, json_field |-> <<>>],
          [name |-> "activity", col_type |-> "Text", nullable |-> FALSE, json_field |-> <<>>],
          [name |-> "type_id", col_type |-> "Integer", nullable |-> FALSE, json_field |-> <<>>],
          [name |-> "quantity", col_type |-> "Integer", nullable |-> FALSE, json_field |-> <<>>]
      >>,
      foreign_keys |-> <<
          [column |-> "blueprint_id", references_table |-> "blueprints", references_column |-> "id"],
          [column |-> "type_id", references_table |-> "types", references_column |-> "id"]
      >>,
      indexes |-> <<
          [columns |-> <<"blueprint_id">>, unique |-> FALSE],
          [columns |-> <<"type_id">>, unique |-> FALSE],
          [columns |-> <<"activity">>, unique |-> FALSE]
      >>,
      child_tables |-> <<>>,
      array_source |-> [kind |-> "BlueprintActivity", activity_column |-> "activity", array_field |-> "materials"] ],
    \* pub static BLUEPRINT_PRODUCTS (lines 1110-1134)
    [ name |-> "blueprint_products",
      source_file |-> "blueprints.jsonl",
      columns |-> <<
          [name |-> "blueprint_id", col_type |-> "Integer", nullable |-> FALSE, json_field |-> <<>>],
          [name |-> "activity", col_type |-> "Text", nullable |-> FALSE, json_field |-> <<>>],
          [name |-> "type_id", col_type |-> "Integer", nullable |-> FALSE, json_field |-> <<>>],
          [name |-> "quantity", col_type |-> "Integer", nullable |-> FALSE, json_field |-> <<>>],
          [name |-> "probability", col_type |-> "Real", nullable |-> TRUE, json_field |-> <<>>]
      >>,
      foreign_keys |-> <<
          [column |-> "blueprint_id", references_table |-> "blueprints", references_column |-> "id"],
          [column |-> "type_id", references_table |-> "types", references_column |-> "id"]
      >>,
      indexes |-> <<
          [columns |-> <<"blueprint_id">>, unique |-> FALSE],
          [columns |-> <<"type_id">>, unique |-> FALSE],
          [columns |-> <<"activity">>, unique |-> FALSE]
      >>,
      child_tables |-> <<>>,
      array_source |-> [kind |-> "BlueprintActivity", activity_column |-> "activity", array_field |-> "products"] ],
    \* pub static BLUEPRINT_SKILLS (lines 1136-1159)
    [ name |-> "blueprint_skills",
      source_file |-> "blueprints.jsonl",
      columns |-> <<
          [name |-> "blueprint_id", col_type |-> "Integer", nullable |-> FALSE, json_field |-> <<>>],
          [name |-> "activity", col_type |-> "Text", nullable |-> FALSE, json_field |-> <<>>],
          [name |-> "type_id", col_type |-> "Integer", nullable |-> FALSE, json_field |-> <<>>],
          [name |-> "level", col_type |-> "Integer", nullable |-> FALSE, json_field |-> <<>>]
      >>,
      foreign_keys |-> <<
          [column |-> "blueprint_id", references_table |-> "blueprints", references_column |-> "id"],
          [column |-> "type_id", references_table |-> "types", references_column |-> "id"]
      >>,
      indexes |-> <<
          [columns |-> <<"blueprint_id">>, unique |-> FALSE],
          [columns |-> <<"type_id">>, unique |-> FALSE],
          [columns |-> <<"activity">>, unique |-> FALSE]
      >>,
      child_tables |-> <<>>,
      array_source |-> [kind |-> "BlueprintActivity", activity_column |-> "activity", array_field |-> "skills"] ],
    \* pub static CLONE_GRADE_SKILLS (lines 1161-1179)
    [ name |-> "clone_grade_skills",
      source_file |-> "cloneGrades.jsonl",
      columns |-> <<
          [name |-> "clone_grade_id", col_type |-> "Integer", nullable |-> FALSE, json_field |-> <<>>],
          [name |-> "type_id", col_type |-> "Integer", nullable |-> FALSE, json_field |-> <<>>],
          [name |-> "level", col_type |-> "Integer", nullable |-> FALSE, json_field |-> <<>>]
      >>,
      foreign_keys |-> <<
          [column |-> "clone_grade_id", references_table |-> "clone_grades", references_column |-> "id"],
          [column |-> "type_id", references_table |-> "types", references_column |-> "id"]
      >>,
      indexes |-> <<
          [columns |-> <<"clone_grade_id">>, unique |-> FALSE],
          [columns |-> <<"type_id">>, unique |-> FALSE]
      >>,
      child_tables |-> <<>>,
      array_source |-> [kind |-> "Simple", array_field |-> "skills", parent_id_column |-> "clone_grade_id"] ],
    \* pub static CONTRABAND_TYPE_FACTIONS (lines 1181-1202)
    [ name |-> "contraband_type_factions",
      source_file |-> "contrabandTypes.jsonl",
      columns |-> <<
          [name |-> "type_id", col_type |-> "Integer", nullable |-> FALSE, json_field |-> <<>>],
          [name |-> "faction_id", col_type |-> "Integer", nullable |-> FALSE, json_field |-> <<"_key">>],
          [name |-> "attack_min_sec", col_type |-> "Real", nullable |-> TRUE, json_field |-> <<>>],
          [name |-> "confiscate_min_sec", col_type |-> "Real", nullable |-> TRUE, json_field |-> <<>>],
          [name |-> "fine_by_value", col_type |-> "Real", nullable |-> TRUE, json_field |-> <<>>],
          [name |-> "standing_loss", col_type |-> "Real", nullable |-> TRUE, json_field |-> <<>>]
      >>,
      foreign_keys |-> <<
          [column |-> "type_id", references_table |-> "types", references_column |-> "id"],
          [column |-> "faction_id", references_table |-> "factions", references_column |-> "id"]
      >>,
      indexes |-> <<
          [columns |-> <<"type_id">>, unique |-> FALSE],
          [columns |-> <<"faction_id">>, unique |-> FALSE]
      >>,
      child_tables |-> <<>>,
      array_source |-> [kind |-> "Simple", array_field |-> "factions", parent_id_column |-> "type_id"] ],
    \* pub static CONTROL_TOWER_RESOURCES (lines 1204-1223)
    [ name |-> "control_tower_resources",
      source_file |-> "controlTowerResources.jsonl",
      columns |-> <<
          [name |-> "type_id", col_type |-> "Integer", nullable |-> FALSE, json_field |-> <<>>],
          [name |-> "resource_type_id", col_type |-> "Integer", nullable |-> FALSE, json_field |-> <<>>],
          [name |-> "purpose", col_type |-> "Integer", nullable |-> TRUE, json_field |-> <<>>],
          [name |-> "quantity", col_type |-> "Integer", nullable |-> TRUE, json_field |-> <<>>]
      >>,
      foreign_keys |-> <<
          [column |-> "type_id", references_table |-> "types", references_column |-> "id"],
          [column |-> "resource_type_id", references_table |-> "types", references_column |-> "id"]
      >>,
      indexes |-> <<
          [columns |-> <<"type_id">>, unique |-> FALSE],
          [columns |-> <<"resource_type_id">>, unique |-> FALSE]
      >>,
      child_tables |-> <<>>,
      array_source |-> [kind |-> "Simple", array_field |-> "resources", parent_id_column |-> "type_id"] ],
    \* pub static DYNAMIC_ITEM_ATTRIBUTES (lines 1225-1244)
    [ name |-> "dynamic_item_attributes",
      source_file |-> "dynamicItemAttributes.jsonl",
      columns |-> <<
          [name |-> "type_id", col_type |-> "Integer", nullable |-> FALSE, json_field |-> <<>>],
          [name |-> "attribute_id", col_type |-> "Integer", nullable |-> FALSE, json_field |-> <<"_key">>],
          [name |-> "min", col_type |-> "Real", nullable |-> TRUE, json_field |-> <<>>],
          [name |-> "max", col_type |-> "Real", nullable |-> TRUE, json_field |-> <<>>]
      >>,
      foreign_keys |-> <<
          [column |-> "type_id", references_table |-> "types", references_column |-> "id"],
          [column |-> "attribute_id", references_table |-> "dogma_attributes", references_column |-> "id"]
      >>,
      indexes |-> <<
          [columns |-> <<"type_id">>, unique |-> FALSE],
          [columns |-> <<"attribute_id">>, unique |-> FALSE]
      >>,
      child_tables |-> <<>>,
      array_source |-> [kind |-> "Simple", array_field |-> "attributeIDs", parent_id_column |-> "type_id"] ],
    \* pub static PLANET_SCHEMATIC_PINS (lines 1246-1264)
    [ name |-> "planet_schematic_pins",
      source_file |-> "planetSchematics.jsonl",
      columns |-> <<
          [name |-> "schematic_id", col_type |-> "Integer", nullable |-> FALSE, json_field |-> <<>>],
          [name |-> "pin_type_id", col_type |-> "Integer", nullable |-> FALSE, json_field |-> <<>>]
      >>,
      foreign_keys |-> <<
          [column |-> "schematic_id", references_table |-> "planet_schematics", references_column |-> "id"],
          [column |-> "pin_type_id", references_table |-> "types", references_column |-> "id"]
      >>,
      indexes |-> <<
          [columns |-> <<"schematic_id">>, unique |-> FALSE]
      >>,
      child_tables |-> <<>>,
      array_source |-> [kind |-> "SimpleIntArray", array_field |-> "pins", parent_id_column |-> "schematic_id", value_column |-> "pin_type_id"] ],
    \* pub static PLANET_SCHEMATIC_TYPES (lines 1266-1285)
    [ name |-> "planet_schematic_types",
      source_file |-> "planetSchematics.jsonl",
      columns |-> <<
          [name |-> "schematic_id", col_type |-> "Integer", nullable |-> FALSE, json_field |-> <<>>],
          [name |-> "type_id", col_type |-> "Integer", nullable |-> FALSE, json_field |-> <<"_key">>],
          [name |-> "is_input", col_type |-> "Boolean", nullable |-> TRUE, json_field |-> <<>>],
          [name |-> "quantity", col_type |-> "Integer", nullable |-> TRUE, json_field |-> <<>>]
      >>,
      foreign_keys |-> <<
          [column |-> "schematic_id", references_table |-> "planet_schematics", references_column |-> "id"],
          [column |-> "type_id", references_table |-> "types", references_column |-> "id"]
      >>,
      indexes |-> <<
          [columns |-> <<"schematic_id">>, unique |-> FALSE],
          [columns |-> <<"type_id">>, unique |-> FALSE]
      >>,
      child_tables |-> <<>>,
      array_source |-> [kind |-> "Simple", array_field |-> "types", parent_id_column |-> "schematic_id"] ],
    \* pub static TYPE_ROLE_BONUSES (lines 1293-1313)
    [ name |-> "type_role_bonuses",
      source_file |-> "typeBonus.jsonl",
      columns |-> <<
          [name |-> "type_id", col_type |-> "Integer", nullable |-> FALSE, json_field |-> <<>>],
          [name |-> "bonus", col_type |-> "Real", nullable |-> TRUE, json_field |-> <<>>],
          [name |-> "bonus_text", col_type |-> "Localized", nullable |-> TRUE, json_field |-> <<>>],
          [name |-> "importance", col_type |-> "Integer", nullable |-> TRUE, json_field |-> <<>>],
          [name |-> "unit_id", col_type |-> "Integer", nullable |-> TRUE, json_field |-> <<>>]
      >>,
      foreign_keys |-> <<
          [column |-> "type_id", references_table |-> "types", references_column |-> "id"],
          [column |-> "unit_id", references_table |-> "dogma_units", references_column |-> "id"]
      >>,
      indexes |-> <<
          [columns |-> <<"type_id">>, unique |-> FALSE]
      >>,
      child_tables |-> <<>>,
      array_source |-> [kind |-> "Simple", array_field |-> "roleBonuses", parent_id_column |-> "type_id"] ],
    \* pub static TYPE_TRAIT_BONUSES (lines 1320-1344)
    [ name |-> "type_trait_bonuses",
      source_file |-> "typeBonus.jsonl",
      columns |-> <<
          [name |-> "type_id", col_type |-> "Integer", nullable |-> FALSE, json_field |-> <<>>],
          [name |-> "skill_type_id", col_type |-> "Integer", nullable |-> FALSE, json_field |-> <<>>],
          [name |-> "bonus", col_type |-> "Real", nullable |-> TRUE, json_field |-> <<>>],
          [name |-> "bonus_text", col_type |-> "Localized", nullable |-> TRUE, json_field |-> <<>>],
          [name |-> "importance", col_type |-> "Integer", nullable |-> TRUE, json_field |-> <<>>],
          [name |-> "is_positive", col_type |-> "Boolean", nullable |-> TRUE, json_field |-> <<>>],
          [name |-> "unit_id", col_type |-> "Integer", nullable |-> TRUE, json_field |-> <<>>]
      >>,
      foreign_keys |-> <<
          [column |-> "type_id", references_table |-> "types", references_column |-> "id"],
          [column |-> "skill_type_id", references_table |-> "types", references_column |-> "id"],
          [column |-> "unit_id", references_table |-> "dogma_units", references_column |-> "id"]
      >>,
      indexes |-> <<
          [columns |-> <<"type_id">>, unique |-> FALSE],
          [columns |-> <<"skill_type_id">>, unique |-> FALSE]
      >>,
      child_tables |-> <<>>,
      array_source |-> [kind |-> "NestedKeyValue", array_field |-> "types", parent_id_column |-> "type_id", nested_key_column |-> "skill_type_id"] ],
    \* pub static TYPE_MASTERIES (lines 1352-1370)
    [ name |-> "type_masteries",
      source_file |-> "masteries.jsonl",
      columns |-> <<
          [name |-> "type_id", col_type |-> "Integer", nullable |-> FALSE, json_field |-> <<>>],
          [name |-> "mastery_level", col_type |-> "Integer", nullable |-> FALSE, json_field |-> <<>>],
          [name |-> "certificate_id", col_type |-> "Integer", nullable |-> FALSE, json_field |-> <<>>]
      >>,
      foreign_keys |-> <<
          [column |-> "type_id", references_table |-> "types", references_column |-> "id"],
          [column |-> "certificate_id", references_table |-> "certificates", references_column |-> "id"]
      >>,
      indexes |-> <<
          [columns |-> <<"type_id">>, unique |-> FALSE]
      >>,
      child_tables |-> <<>>,
      array_source |-> [kind |-> "DoubleNested", parent_id_column |-> "type_id", level_key_column |-> "mastery_level"] ],
    \* pub static DBUFF_ITEM_MODIFIERS (lines 1398-1418)
    [ name |-> "dbuff_item_modifiers",
      source_file |-> "dbuffCollections.jsonl",
      columns |-> <<
          [name |-> "collection_id", col_type |-> "Integer", nullable |-> FALSE, json_field |-> <<>>],
          [name |-> "dogma_attribute_id", col_type |-> "Integer", nullable |-> FALSE, json_field |-> <<"dogmaAttributeID">>]
      >>,
      foreign_keys |-> <<
          [column |-> "collection_id", references_table |-> "dbuff_collections", references_column |-> "id"],
          [column |-> "dogma_attribute_id", references_table |-> "dogma_attributes", references_column |-> "id"]
      >>,
      indexes |-> <<
          [columns |-> <<"collection_id">>, unique |-> FALSE],
          [columns |-> <<"dogma_attribute_id">>, unique |-> FALSE]
      >>,
      child_tables |-> <<>>,
      array_source |-> [kind |-> "Simple", array_field |-> "itemModifiers", parent_id_column |-> "collection_id"] ],
    \* pub static DBUFF_LOCATION_MODIFIERS (lines 1422-1442)
    [ name |-> "dbuff_location_modifiers",
      source_file |-> "dbuffCollections.jsonl",
      columns |-> <<
          [name |-> "collection_id", col_type |-> "Integer", nullable |-> FALSE, json_field |-> <<>>],
          [name |-> "dogma_attribute_id", col_type |-> "Integer", nullable |-> FALSE, json_field |-> <<"dogmaAttributeID">>]
      >>,
      foreign_keys |-> <<
          [column |-> "collection_id", references_table |-> "dbuff_collections", references_column |-> "id"],
          [column |-> "dogma_attribute_id", references_table |-> "dogma_attributes", references_column |-> "id"]
      >>,
      indexes |-> <<
          [columns |-> <<"collection_id">>, unique |-> FALSE],
          [columns |-> <<"dogma_attribute_id">>, unique |-> FALSE]
      >>,
      child_tables |-> <<>>,
      array_source |-> [kind |-> "Simple", array_field |-> "locationModifiers", parent_id_column |-> "collection_id"] ],
    \* pub static DBUFF_LOCATION_GROUP_MODIFIERS (lines 1446-1469)
    [ name |-> "dbuff_location_group_modifiers",
      source_file |-> "dbuffCollections.jsonl",
      columns |-> <<
          [name |-> "collection_id", col_type |-> "Integer", nullable |-> FALSE, json_field |-> <<>>],
          [name |-> "dogma_attribute_id", col_type |-> "Integer", nullable |-> FALSE, json_field |-> <<"dogmaAttributeID">>],
          [name |-> "group_id", col_type |-> "Integer", nullable |-> FALSE, json_field |-> <<>>]
      >>,
      foreign_keys |-> <<
          [column |-> "collection_id", references_table |-> "dbuff_collections", references_column |-> "id"],
          [column |-> "dogma_attribute_id", references_table |-> "dogma_attributes", references_column |-> "id"],
          [column |-> "group_id", references_table |-> "groups", references_column |-> "id"]
      >>,
      indexes |-> <<
          [columns |-> <<"collection_id">>, unique |-> FALSE],
          [columns |-> <<"dogma_attribute_id">>, unique |-> FALSE],
          [columns |-> <<"group_id">>, unique |-> FALSE]
      >>,
      child_tables |-> <<>>,
      array_source |-> [kind |-> "Simple", array_field |-> "locationGroupModifiers", parent_id_column |-> "collection_id"] ]
  >>

(***************************************************************************)
(* The state of one process.  The registry is static data, loaded with the *)
(* program and never written; the hasher state is drawn when the process   *)
(* starts.  A behaviour of Spec is one process making one call of a public *)
(* operation of the resolver or of the filter; a behaviour of SpecConvert  *)
(* is one run of the convert or of the sync command, and for the convert   *)
(* command a second run of it, in a fresh process, on the same input; a    *)
(* behaviour of SpecParse is one call of a function of the record parser,  *)
(* of the schema generator or of a table schema.                           *)
(***************************************************************************)
VARIABLES
  registry,      \* the static ALL_TABLES
  hasher,        \* the order in which this process's hash sets are iterated
  op,            \* the operation called
  arg_include,   \* the include list passed to the call (Option)
  arg_exclude,   \* the exclude list passed to the call (Option)
  ret,           \* its result
  called,        \* the resolver operation resolve_tables invoked
  pc,            \* "start" before the call, "done" after it
  input_dir,     \* the source files present: file name -> lines
  tables,        \* convert_to_sqlite: the ordered tables (by name)
  conn,          \* the database of the writer's connection
  tx,            \* import_table: the rows of the table inside the open
                 \* transaction (Option)
  batch,         \* import_table: the pending batch
  count,         \* import_table: the rows inserted so far
  line_no,       \* import_table: the next line of reader.lines()
  line_count,    \* convert_to_sqlite: the lines counted in the file
  table_i,       \* the index of the loop over the tables
  total_records, \* convert_to_sqlite: the sum of the counts
  wpc,           \* where the convert run stands
  result,        \* what convert_to_sqlite returned
  log,           \* the SQL statements executed, in order
  progress,      \* the calls of ui.set_progress, in order
  imported,      \* what import_table returned, per call
  previous,      \* what an earlier run of the same command on the same input
                 \* left behind (Option)
  output_db,     \* the database file at the output path when the run started
  command,       \* the subcommand of the run
  download,      \* sync: --force, whether the latest build is cached, and
                 \* whether the server answers
  io,            \* the network requests and the file-system writes of
                 \* ensure_sde_downloaded, in order
  parse_fn,      \* the function called: of the parser, or of a schema
  parse_in,      \* its arguments
  parse_out      \* what it returned

resolver_vars == <<registry, hasher, op, arg_include, arg_exclude, ret, called, pc>>

writer_vars ==
  <<input_dir, tables, conn, tx, batch, count, line_no, line_count, table_i,
    total_records, wpc, result, log, progress, imported, previous,
    output_db>>

sync_vars == <<command, download, io>>

parser_vars == <<parse_fn, parse_in, parse_out>>

vars == <<resolver_vars, writer_vars, sync_vars, parser_vars>>

(* The names of the registry, in registry order *)
table_names == [i \in DOMAIN registry |-> registry[i].name]

(* Get table schema by name: the first registry entry of that name *)
get_table(name) ==
  LET hits == {i \in DOMAIN registry : registry[i].name = name}
  IN  IF hits = {} THEN None
      ELSE Some(registry[CHOOSE i \in hits : \A j \in hits : i <= j])

(***************************************************************************)
(* schema/types.rs: TableSchema::dependencies                              *)
(***************************************************************************)
(* The tables this table depends on, without the table itself *)
dependencies_but_self(schema) ==
  {schema.foreign_keys[i].references_table : i \in DOMAIN schema.foreign_keys}
  \ {schema.name}

(* Get all tables this table depends on (FK parents): the set of the       *)
(* references_table of every foreign key, a self-reference included.       *)
dependencies(schema) ==
  {schema.foreign_keys[i].references_table : i \in DOMAIN schema.foreign_keys}

(***************************************************************************)
(* Iteration order of std::collections::HashSet.  The order depends on the *)
(* hasher's random state, which differs from one process to the next; a    *)
(* random state is modelled by a seed, under which a set is iterated by     *)
(* ascending hash (bucket index) of its elements.                          *)
(***************************************************************************)
MaxSeed == 2
HashSeeds == 0..MaxSeed

(* The table has a prime number of buckets, more than it has elements *)
HashModulus == Len(registry) + 2

TableIndex(name) == CHOOSE i \in DOMAIN registry : registry[i].name = name

Hash(seed, name) == (TableIndex(name) * (1 + 65 * seed)) % HashModulus

(* Every registry name, in ascending bucket (hash) order under seed *)
BucketOrder(seed) ==
  SortSeq(table_names, LAMBDA a, b : Hash(seed, a) < Hash(seed, b))

(* The elements of a HashSet in the order its iterator yields them, in a   *)
(* process whose hasher walks the buckets in the given order.              *)
HashSetIter(set, order) == SelectSeq(order, LAMBDA n : n \in set)

(***************************************************************************)
(* schema/dependencies.rs: DependencyResolver                              *)
(***************************************************************************)
(* DependencyResolver::new: map of table name -> tables it depends on *)
deps ==
  [n \in Range(table_names) |-> dependencies(get_table(n)[1])]

(* Map of table name -> tables that depend on it (reserved for future use) *)
reverse_deps ==
  [n \in UNION {deps[t] : t \in DOMAIN deps} |-> {t \in DOMAIN deps : n \in deps[t]}]

Ok(sorted) == [ok |-> TRUE, tables |-> sorted, err |-> "", at |-> ""]
Err(kind, name) == [ok |-> FALSE, tables |-> <<>>, err |-> kind, at |-> name]

(* self.deps.get(name) *)
deps_get(name) == IF get_table(name) # None THEN deps[name] ELSE {}

RECURSIVE visit(_, _, _, _), visit_deps(_, _, _, _, _)
(* The loop `for dep in deps` of visit, over the remaining elements ds *)
visit_deps(ds, name, included, st, order) ==
  IF ds = <<>> THEN st
  ELSE LET dep == Head(ds) IN
       IF dep # name /\ dep \in included
       THEN LET st2 == visit(dep, included, st, order) IN
            IF ~st2.ok THEN st2
            ELSE visit_deps(Tail(ds), name, included, st2, order)
       ELSE visit_deps(Tail(ds), name, included, st, order)

(* visit with the table appended before its dependencies are visited *)
visit_preorder(name, included, st, order) ==
  IF name \in st.temp_visited THEN [st EXCEPT !.ok = FALSE, !.at = name]
  ELSE IF name \in st.visited THEN st
  ELSE LET st1 == [st EXCEPT !.temp_visited = @ \cup {name},
                             !.result = IF get_table(name) # None
                                        THEN Append(@, name) ELSE @]
           st2 == visit_deps(HashSetIter(deps_get(name), order), name,
                             included, st1, order)
       IN  IF ~st2.ok THEN st2
           ELSE [st2 EXCEPT !.temp_visited = @ \ {name},
                            !.visited = @ \cup {name}]

(* st = [ok, at, visited, temp_visited, result] *)
visit(name, included, st, order) ==
  IF name \in st.temp_visited THEN [st EXCEPT !.ok = FALSE, !.at = name]
  ELSE IF name \in st.visited THEN st
  ELSE LET st1 == [st EXCEPT !.temp_visited = @ \cup {name}]
           st2 == visit_deps(HashSetIter(deps_get(name), order), name,
                             included, st1, order)
       IN  IF ~st2.ok THEN st2
           ELSE [st2 EXCEPT !.temp_visited = @ \ {name},
                            !.visited = @ \cup {name},
                            !.result = IF get_table(name) # None
                                       THEN Append(@, name) ELSE @]

RECURSIVE topological_sort_loop(_, _, _, _)
topological_sort_loop(names, included, st, order) ==
  IF names = <<>> \/ ~st.ok THEN st
  ELSE LET table_name == Head(names)
           st2 == IF table_name \notin st.visited
                  THEN visit(table_name, included, st, order) ELSE st
       IN  topological_sort_loop(Tail(names), included, st2, order)

(* Topological sort of tables by dependencies *)
topological_sort(included, order) ==
  LET st0 == [ok |-> TRUE, at |-> "", visited |-> {}, temp_visited |-> {},
              result |-> <<>>]
      st  == topological_sort_loop(HashSetIter(included, order), included,
                                   st0, order)
  IN  IF st.ok THEN Ok(st.result)
      ELSE Err("Circular dependency detected at", st.at)

(* The elements of the sequence s that are not in the set `included` *)
NotIncluded(s, included) == SelectSeq(s, LAMBDA x : x \notin included)

RECURSIVE resolve_includes_loop(_, _, _)
(* resolve_includes_loop that does not follow foreign keys to the parents *)
resolve_includes_loop_no_parents(queue, included, order) ==
  IF queue = <<>> THEN [ok |-> TRUE, included |-> included, at |-> ""]
  ELSE LET table_name == Head(queue)
           rest == Tail(queue)
       IN  IF table_name \in included
           THEN resolve_includes_loop(rest, included, order)
           ELSE IF get_table(table_name) = None
           THEN [ok |-> FALSE, included |-> included, at |-> table_name]
           ELSE LET inc1 == included \cup {table_name}
                    children == NotIncluded(
                                  get_table(table_name)[1].child_tables, inc1)
                IN  resolve_includes_loop(rest \o children, inc1, order)

(* resolve_includes_loop that does not add the declared child tables *)
resolve_includes_loop_no_children(queue, included, order) ==
  IF queue = <<>> THEN [ok |-> TRUE, included |-> included, at |-> ""]
  ELSE LET table_name == Head(queue)
           rest == Tail(queue)
       IN  IF table_name \in included
           THEN resolve_includes_loop(rest, included, order)
           ELSE IF get_table(table_name) = None
           THEN [ok |-> FALSE, included |-> included, at |-> table_name]
           ELSE LET inc1 == included \cup {table_name}
                    parents == NotIncluded(
                                 HashSetIter(deps_get(table_name), order), inc1)
                IN  resolve_includes_loop(rest \o parents, inc1, order)

(* The loop `while let Some(table_name) = queue.pop_front()` *)
resolve_includes_loop(queue, included, order) ==
  IF queue = <<>> THEN [ok |-> TRUE, included |-> included, at |-> ""]
  ELSE LET table_name == Head(queue)
           rest == Tail(queue)
       IN  IF table_name \in included
           THEN resolve_includes_loop(rest, included, order)
           ELSE IF get_table(table_name) = None
           THEN [ok |-> FALSE, included |-> included, at |-> table_name]
           ELSE LET inc1 == included \cup {table_name}
                    parents == NotIncluded(
                                 HashSetIter(deps_get(table_name), order), inc1)
                    children == NotIncluded(
                                  get_table(table_name)[1].child_tables, inc1)
                IN  resolve_includes_loop(rest \o parents \o children, inc1,
                                          order)

(* Given a set of requested tables, resolve all required dependencies.     *)
(* Returns tables in dependency order (parents before children).           *)
resolve_includes(requested, order) ==
  LET r == resolve_includes_loop(requested, {}, order)
  IN  IF ~r.ok THEN Err("Unknown table", r.at)
      ELSE topological_sort(r.included, order)

(* resolve_excludes that validates the first excluded name only *)
resolve_excludes_first_only(excluded, order) ==
  IF excluded # <<>> /\ get_table(excluded[1]) = None
  THEN Err("Unknown table", excluded[1])
  ELSE LET excluded_set == Range(excluded)
           parent_excluded(table) ==
             \E k \in DOMAIN table.foreign_keys :
                table.foreign_keys[k].references_table \in excluded_set
           included ==
             {registry[i].name : i \in
                {j \in DOMAIN registry :
                   /\ registry[j].name \notin excluded_set
                   /\ ~parent_excluded(registry[j])}}
       IN  topological_sort(included, order)

RECURSIVE Descendants(_)
(* The tables reachable from the set S along foreign keys, S included *)
Descendants(S) ==
  LET more == {registry[i].name : i \in
                 {j \in DOMAIN registry :
                    dependencies(registry[j]) \cap S # {}}}
  IN  IF more \subseteq S THEN S ELSE Descendants(S \cup more)

(* resolve_excludes whose cascade is transitive *)
resolve_excludes_transitive(excluded, order) ==
  LET unknown == {i \in DOMAIN excluded : get_table(excluded[i]) = None}
  IN  IF unknown # {}
      THEN Err("Unknown table",
               excluded[CHOOSE i \in unknown : \A j \in unknown : i <= j])
      ELSE topological_sort(
             Range(table_names) \ Descendants(Range(excluded)), order)

(* Given a set of tables to exclude, return remaining tables in order *)
resolve_excludes(excluded, order) ==
  LET unknown == {i \in DOMAIN excluded : get_table(excluded[i]) = None}
  IN  IF unknown # {}
      THEN Err("Unknown table",
               excluded[CHOOSE i \in unknown : \A j \in unknown : i <= j])
      ELSE LET excluded_set == Range(excluded)
               parent_excluded(table) ==
                 \E k \in DOMAIN table.foreign_keys :
                    table.foreign_keys[k].references_table \in excluded_set
               included ==
                 {registry[i].name : i \in
                    {j \in DOMAIN registry :
                       /\ registry[j].name \notin excluded_set
                       /\ ~parent_excluded(registry[j])}}
           IN  topological_sort(included, order)

(* Return all tables in dependency order *)
all_tables_ordered == table_names

(***************************************************************************)
(* filter.rs                                                               *)
(***************************************************************************)
(* resolve_tables in which the include list wins when both are supplied *)
resolve_tables_include_wins(include, exclude, order) ==
  IF include # None
  THEN [res |-> resolve_includes(include[1], order), called |-> "resolve_includes"]
  ELSE IF exclude # None
  THEN [res |-> resolve_excludes(exclude[1], order), called |-> "resolve_excludes"]
  ELSE [res |-> Ok(all_tables_ordered), called |-> "all_tables_ordered"]

(* Resolves which tables to process based on include/exclude filters.      *)
(* `called` names the resolver operation that resolve_tables invoked.      *)
resolve_tables(include, exclude, order) ==
  IF include # None /\ exclude # None
  THEN [res |-> Err("Cannot use both --include and --exclude at the same time", ""),
        called |-> "none"]
  ELSE IF include # None
  THEN [res |-> resolve_includes(include[1], order), called |-> "resolve_includes"]
  ELSE IF exclude # None
  THEN [res |-> resolve_excludes(exclude[1], order), called |-> "resolve_excludes"]
  ELSE [res |-> Ok(all_tables_ordered), called |-> "all_tables_ordered"]

(***************************************************************************)
(* parser/record.rs: the input lines and serde_json::Value                 *)
(*                                                                         *)
(* A line of a source file is blank (line.trim().is_empty()), malformed    *)
(* (serde_json::from_str fails) or holds a JSON value.  A JSON value is a  *)
(* tagged record; an object is the sequence of its key/value entries, in   *)
(* the order in which the map iterates them.  A number that is not an      *)
(* integer is kept in tenths.                                              *)
(***************************************************************************)
JNull == [t |-> "null", v |-> 0]
JBool(b) == [t |-> "bool", v |-> b]
JInt(i) == [t |-> "int", v |-> i]
JReal(tenths) == [t |-> "real", v |-> tenths]
JStr(s) == [t |-> "str", v |-> s]
JArr(items) == [t |-> "arr", v |-> items]
JObj(entries) == [t |-> "obj", v |-> entries]
KV(key, value) == [k |-> key, v |-> value]

BlankLine == [kind |-> "blank", json |-> JNull]
MalformedLine == [kind |-> "malformed", json |-> JNull]
JsonLine(json) == [kind |-> "json", json |-> json]

(* Concatenation of a sequence of sequences *)
RECURSIVE Flatten(_)
Flatten(ss) == IF Len(ss) = 0 THEN <<>> ELSE Head(ss) \o Flatten(Tail(ss))

(* Value::get with a string index: the member of an object, if any *)
json_get(json, key) ==
  IF json.t # "obj" THEN None
  ELSE LET hits == {i \in DOMAIN json.v : json.v[i].k = key}
       IN  IF hits = {} THEN None
           ELSE Some(json.v[CHOOSE i \in hits : \A j \in hits : j <= i].v)

as_i64(v) == IF v.t = "int" THEN Some(v.v) ELSE None
as_f64(v) ==
  IF v.t = "int" THEN Some(10 * v.v)
  ELSE IF v.t = "real" THEN Some(v.v) ELSE None
as_str(v) == IF v.t = "str" THEN Some(v.v) ELSE None
as_bool(v) == IF v.t = "bool" THEN Some(v.v) ELSE None
as_object(v) == IF v.t = "obj" THEN Some(v) ELSE None
as_array(v) == IF v.t = "arr" THEN Some(v.v) ELSE None

(* json.get(key).and_then(|v| v.as_i64()) *)
get_i64(json, key) ==
  LET g == json_get(json, key) IN IF g = None THEN None ELSE as_i64(g[1])

(* match json.get(key) { Some(Value::Array(arr)) => arr, _ => ... } *)
get_array(json, key) ==
  LET g == json_get(json, key) IN IF g = None THEN None ELSE as_array(g[1])

(* Value::to_string: the compact serialisation *)
RECURSIVE to_string(_)
RECURSIVE join_values(_, _)
RECURSIVE join_entries(_, _)
join_values(items, i) ==
  IF i > Len(items) THEN ""
  ELSE (IF i > 1 THEN "," ELSE "") \o to_string(items[i]) \o join_values(items, i + 1)
join_entries(entries, i) ==
  IF i > Len(entries) THEN ""
  ELSE (IF i > 1 THEN "," ELSE "") \o "\"" \o entries[i].k \o "\":"
       \o to_string(entries[i].v) \o join_entries(entries, i + 1)
to_string(v) ==
  CASE v.t = "null" -> "null"
    [] v.t = "bool" -> (IF v.v THEN "true" ELSE "false")
    [] v.t = "int"  -> ToString(v.v)
    [] v.t = "real" -> ToString(v.v \div 10) \o "." \o ToString(v.v % 10)
    [] v.t = "str"  -> "\"" \o v.v \o "\""
    [] v.t = "arr"  -> "[" \o join_values(v.v, 1) \o "]"
    [] v.t = "obj"  -> "{" \o join_entries(v.v, 1) \o "}"

(***************************************************************************)
(* parser/record.rs: SqlValue and ParsedRow                                *)
(***************************************************************************)
Null == [t |-> "Null", v |-> 0]
Integer(i) == [t |-> "Integer", v |-> i]
Real(f) == [t |-> "Real", v |-> f]
Text(s) == [t |-> "Text", v |-> s]

(* The HashMap built by inserting the entries in order: a later insert     *)
(* under a key replaces the earlier one.                                   *)
RECURSIVE HashMap(_)
HashMap(entries) ==
  IF Len(entries) = 0 THEN <<>>
  ELSE LET n == Len(entries)
       IN  (entries[n].k :> entries[n].v) @@ HashMap(SubSeq(entries, 1, n - 1))

ParseOk(rows) == [ok |-> TRUE, rows |-> rows, err |-> ""]
ParseErr(msg) == [ok |-> FALSE, rows |-> <<>>, err |-> msg]

(***************************************************************************)
(* parser/record.rs: to_camel_case                                         *)
(***************************************************************************)
AsciiLower == "abcdefghijklmnopqrstuvwxyz"
AsciiUpper == "ABCDEFGHIJKLMNOPQRSTUVWXYZ"

to_ascii_uppercase(c) ==
  LET hits == {i \in 1..Len(AsciiLower) : SubSeq(AsciiLower, i, i) = c}
  IN  IF hits = {} THEN c
      ELSE LET i == CHOOSE i \in hits : TRUE IN SubSeq(AsciiUpper, i, i)

RECURSIVE to_camel_case_loop(_, _, _)
to_camel_case_loop(s, i, capitalize_next) ==
  IF i > Len(s) THEN ""
  ELSE LET c == SubSeq(s, i, i)
       IN  IF c = "_" THEN to_camel_case_loop(s, i + 1, TRUE)
           ELSE IF capitalize_next
           THEN to_ascii_uppercase(c) \o to_camel_case_loop(s, i + 1, FALSE)
           ELSE c \o to_camel_case_loop(s, i + 1, capitalize_next)

to_camel_case_inner(s) == to_camel_case_loop(s, 1, FALSE)

(* A conversion without the rule for the `_id` suffix *)
to_camel_case_plain(s) == to_camel_case_inner(s)

(* Convert snake_case to camelCase; an `_id` suffix becomes `ID` *)
to_camel_case(s) ==
  IF Len(s) >= 3 /\ SubSeq(s, Len(s) - 2, Len(s)) = "_id"
  THEN to_camel_case_inner(SubSeq(s, 1, Len(s) - 3)) \o "ID"
  ELSE to_camel_case_inner(s)

(***************************************************************************)
(* parser/record.rs: extract_value                                         *)
(***************************************************************************)
(* A coercion that serialises whatever it finds *)
extract_value_serialising(json, key, col_type) ==
  LET val == json_get(json, key)
  IN  IF val = None THEN Null ELSE Text(to_string(val[1]))

extract_value(json, key, col_type) ==
  LET val == json_get(json, key) IN
  IF val = None \/ val = Some(JNull) THEN Null
  ELSE LET v == val[1] IN
       CASE col_type = "Integer" ->
              (IF as_i64(v) = None THEN Null ELSE Integer(as_i64(v)[1]))
         [] col_type = "Real" ->
              (IF as_f64(v) = None THEN Null ELSE Real(as_f64(v)[1]))
         [] col_type = "Text" ->
              (IF as_str(v) = None THEN Null ELSE Text(as_str(v)[1]))
         [] col_type = "Boolean" ->
              (IF as_bool(v) = None THEN Null
               ELSE Integer(IF as_bool(v)[1] THEN 1 ELSE 0))
         [] col_type = "Json" -> Text(to_string(v))
         [] col_type = "Localized" -> Null

(***************************************************************************)
(* parser/record.rs: parse_record                                          *)
(***************************************************************************)
(* A Localized column treated as the junction parsers treat it: one value *)
(* under the column's own name                                             *)
record_column_unexpanded(json, col) ==
  << KV(col.name, extract_value(json, to_camel_case(col.name), col.col_type)) >>

(* The inserts parse_record makes for one column *)
record_column(json, col) ==
  IF col.col_type = "Localized"
  THEN LET g == json_get(json, to_camel_case(col.name))
           obj == IF g = None THEN None ELSE as_object(g[1])
       IN  [l \in DOMAIN LANGUAGES |->
              KV(col.name \o "_" \o LANGUAGES[l],
                 IF obj = None THEN Null
                 ELSE LET s == json_get(obj[1], LANGUAGES[l])
                      IN  IF s = None \/ as_str(s[1]) = None THEN Null
                          ELSE Text(as_str(s[1])[1]))]
  ELSE LET json_key == IF col.name = "id" THEN "_key" ELSE to_camel_case(col.name)
       IN  << KV(col.name, extract_value(json, json_key, col.col_type)) >>

(* Parse a JSON line into a row for the given table schema *)
parse_record(line, schema) ==
  IF line.kind # "json" THEN ParseErr("Failed to parse JSON")
  ELSE ParseOk(<< HashMap(Flatten([i \in DOMAIN schema.columns |->
                     record_column(line.json, schema.columns[i])])) >>)

(***************************************************************************)
(* parser/record.rs: the junction parsers                                  *)
(***************************************************************************)
(* The columns a junction parser fills from the array element: all but     *)
(* those it has already set                                                *)
OtherColumns(schema, preset) ==
  SelectSeq(schema.columns, LAMBDA col : col.name \notin preset)

(* Use explicit json_field if set, otherwise derive from column name *)
json_key_of(col) ==
  IF col.json_field # None THEN col.json_field[1] ELSE to_camel_case(col.name)

(* Parse simple nested array: {"_key": X, "fieldName": [{...}, {...}]} *)
parse_simple_array(json, schema, array_field, parent_id_column) ==
  LET parent_id == get_i64(json, "_key")
      array == get_array(json, array_field)
      others == OtherColumns(schema, {parent_id_column})
      row(item) ==
        HashMap(<< KV(parent_id_column, Integer(parent_id[1])) >> \o
                [c \in DOMAIN others |->
                   KV(others[c].name,
                      extract_value(item, json_key_of(others[c]), others[c].col_type))])
  IN  IF parent_id = None THEN ParseErr("Missing _key in JSON")
      ELSE IF array = None THEN ParseOk(<<>>)
      ELSE ParseOk([i \in DOMAIN array[1] |-> row(array[1][i])])

(* An identifier looked up under _key before blueprintTypeID *)
blueprint_id_of_key_first(json) ==
  IF json_get(json, "_key") # None THEN get_i64(json, "_key")
  ELSE get_i64(json, "blueprintTypeID")

(* json.get("blueprintTypeID").or_else(|| json.get("_key"))                *)
(*     .and_then(|v| v.as_i64())                                           *)
blueprint_id_of(json) ==
  IF json_get(json, "blueprintTypeID") # None THEN get_i64(json, "blueprintTypeID")
  ELSE get_i64(json, "_key")

(* Parse blueprint-style nested structure: activities.{activity}.{field}[] *)
parse_blueprint_activity(json, schema, activity_column, array_field) ==
  LET blueprint_id == blueprint_id_of(json)
      g == json_get(json, "activities")
      activities == IF g = None THEN None ELSE as_object(g[1])
      others == OtherColumns(schema, {"blueprint_id", activity_column})
      row(activity_name, item) ==
        HashMap(<< KV("blueprint_id", Integer(blueprint_id[1])),
                   KV(activity_column, Text(activity_name)) >> \o
                [c \in DOMAIN others |->
                   KV(others[c].name,
                      extract_value(item, to_camel_case(others[c].name),
                                    others[c].col_type))])
      activity_rows(entry) ==
        LET array == get_array(entry.v, array_field)
        IN  IF array = None THEN <<>>
            ELSE [i \in DOMAIN array[1] |-> row(entry.k, array[1][i])]
  IN  IF blueprint_id = None THEN ParseErr("Missing blueprintTypeID or _key in JSON")
      ELSE IF activities = None THEN ParseOk(<<>>)
      ELSE ParseOk(Flatten([a \in DOMAIN activities[1].v |->
                              activity_rows(activities[1].v[a])]))

(* A row for every element, NULL where the element is not an integer *)
parse_simple_int_array_every_item(json, array_field, parent_id_column, value_column) ==
  LET parent_id == get_i64(json, "_key")
      array == get_array(json, array_field)
  IN  IF parent_id = None THEN ParseErr("Missing _key in JSON")
      ELSE IF array = None THEN ParseOk(<<>>)
      ELSE ParseOk([i \in DOMAIN array[1] |->
                      (value_column :> (IF as_i64(array[1][i]) = None THEN Null
                                        ELSE Integer(as_i64(array[1][i])[1]))) @@
                      (parent_id_column :> Integer(parent_id[1]))])

(* Parse simple integer array: {"_key": X, "fieldName": [123, 456, ...]} *)
parse_simple_int_array(json, array_field, parent_id_column, value_column) ==
  LET parent_id == get_i64(json, "_key")
      array == get_array(json, array_field)
      ints == SelectSeq(array[1], LAMBDA item : as_i64(item) # None)
  IN  IF parent_id = None THEN ParseErr("Missing _key in JSON")
      ELSE IF array = None THEN ParseOk(<<>>)
      ELSE ParseOk([i \in DOMAIN ints |->
                      (value_column :> Integer(as_i64(ints[i])[1])) @@
                      (parent_id_column :> Integer(parent_id[1]))])

(* Parse nested key-value array:                                           *)
(* {"_key": X, "types": [{"_key": Y, "_value": [{...}]}]}                  *)
parse_nested_key_value(json, schema, array_field, parent_id_column, nested_key_column) ==
  LET parent_id == get_i64(json, "_key")
      outer_array == get_array(json, array_field)
      others == OtherColumns(schema, {parent_id_column, nested_key_column})
      row(nested_key, item) ==
        HashMap(<< KV(parent_id_column, Integer(parent_id[1])),
                   KV(nested_key_column, Integer(nested_key)) >> \o
                [c \in DOMAIN others |->
                   KV(others[c].name,
                      extract_value(item, to_camel_case(others[c].name),
                                    others[c].col_type))])
      outer_rows(outer_item) ==
        LET nested_key == get_i64(outer_item, "_key")
            inner_array == get_array(outer_item, "_value")
        IN  IF nested_key = None \/ inner_array = None THEN <<>>
            ELSE [i \in DOMAIN inner_array[1] |-> row(nested_key[1], inner_array[1][i])]
  IN  IF parent_id = None THEN ParseErr("Missing _key in JSON")
      ELSE IF outer_array = None THEN ParseOk(<<>>)
      ELSE ParseOk(Flatten([o \in DOMAIN outer_array[1] |-> outer_rows(outer_array[1][o])]))

(* The wrappers of _value read as those of a nested key-value array: the   *)
(* inner elements are taken for objects                                    *)
parse_double_nested_as_objects(json, schema, parent_id_column, level_key_column) ==
  parse_nested_key_value(json, schema, "_value", parent_id_column, level_key_column)

(* Parse double-nested arrays:                                             *)
(* {"_key": X, "_value": [{"_key": Y, "_value": [Z, ...]}]}                *)
parse_double_nested(json, schema, parent_id_column, level_key_column) ==
  LET parent_id == get_i64(json, "_key")
      outer_array == get_array(json, "_value")
      others == OtherColumns(schema, {parent_id_column, level_key_column})
      row(level_key, item) ==
        HashMap(<< KV(parent_id_column, Integer(parent_id[1])),
                   KV(level_key_column, Integer(level_key)) >> \o
                [c \in DOMAIN others |->
                   KV(others[c].name,
                      IF as_i64(item) # None THEN Integer(as_i64(item)[1])
                      ELSE extract_value(item, to_camel_case(others[c].name),
                                         others[c].col_type))])
      outer_rows(outer_item) ==
        LET level_key == get_i64(outer_item, "_key")
            inner_array == get_array(outer_item, "_value")
        IN  IF level_key = None \/ inner_array = None THEN <<>>
            ELSE [i \in DOMAIN inner_array[1] |-> row(level_key[1], inner_array[1][i])]
  IN  IF parent_id = None THEN ParseErr("Missing _key in JSON")
      ELSE IF outer_array = None THEN ParseOk(<<>>)
      ELSE ParseOk(Flatten([o \in DOMAIN outer_array[1] |-> outer_rows(outer_array[1][o])]))

(* Parse a JSON line into rows for a junction table *)
parse_junction_records(line, schema) ==
  LET json == line.json
      src == schema.array_source
  IN  IF line.kind # "json" THEN ParseErr("Failed to parse JSON")
      ELSE CASE src.kind = "None" -> ParseErr("Table has no array_source")
             [] src.kind = "Simple" ->
                  parse_simple_array(json, schema, src.array_field, src.parent_id_column)
             [] src.kind = "SimpleIntArray" ->
                  parse_simple_int_array(json, src.array_field, src.parent_id_column,
                                         src.value_column)
             [] src.kind = "BlueprintActivity" ->
                  parse_blueprint_activity(json, schema, src.activity_column, src.array_field)
             [] src.kind = "NestedKeyValue" ->
                  parse_nested_key_value(json, schema, src.array_field,
                                         src.parent_id_column, src.nested_key_column)
             [] src.kind = "DoubleNested" ->
                  parse_double_nested(json, schema, src.parent_id_column,
                                      src.level_key_column)

(***************************************************************************)
(* writer/schema_gen.rs.  A statement is kept as the structure SQLite      *)
(* reads from its text.                                                    *)
(***************************************************************************)
(* Every declared type stored as text *)
sql_type_text(col_type) == "TEXT"

sql_type(col_type) ==
  CASE col_type = "Integer" -> "INTEGER"
    [] col_type = "Real"    -> "REAL"
    [] col_type = "Text"    -> "TEXT"
    [] col_type = "Boolean" -> "INTEGER"
    [] col_type = "Json"    -> "TEXT"

(* Generate CREATE TABLE SQL for a table schema *)
generate_create_table(schema) ==
  [ stmt |-> "CREATE TABLE",
    table |-> schema.name,
    columns |->
      Flatten([i \in DOMAIN schema.columns |->
        LET col == schema.columns[i] IN
        IF col.col_type = "Localized"
        THEN [l \in DOMAIN LANGUAGES |->
                [name |-> col.name \o "_" \o LANGUAGES[l], sql_type |-> "TEXT",
                 pk |-> FALSE, not_null |-> FALSE]]
        ELSE << [name |-> col.name, sql_type |-> sql_type(col.col_type),
                 pk |-> (col.name = "id"), not_null |-> ~col.nullable] >>]),
    foreign_keys |-> schema.foreign_keys ]

starts_with(s, prefix) ==
  Len(s) >= Len(prefix) /\ SubSeq(s, 1, Len(prefix)) = prefix

CreateIndex(table, suffix, cols, unique) ==
  [ stmt |-> IF unique THEN "CREATE UNIQUE INDEX" ELSE "CREATE INDEX",
    name |-> "idx_" \o table \o "_" \o suffix,
    table |-> table,
    columns |-> cols,
    unique |-> unique ]

(* Generate CREATE INDEX statements for a table *)
generate_indexes(schema) ==
  LET fk_indexes ==
        [f \in DOMAIN schema.foreign_keys |->
           CreateIndex(schema.name, schema.foreign_keys[f].column,
                       << schema.foreign_keys[f].column >>, FALSE)]
      has_name ==
        \E i \in DOMAIN schema.columns :
          schema.columns[i].name = "name" /\ schema.columns[i].col_type = "Localized"
      name_index ==
        IF has_name THEN << CreateIndex(schema.name, "name_en", << "name_en" >>, FALSE) >>
        ELSE <<>>
      composite ==
        IF schema.array_source.kind # "None" /\ Len(schema.foreign_keys) = 2
        THEN << CreateIndex(schema.name, "composite",
                            << schema.foreign_keys[1].column,
                               schema.foreign_keys[2].column >>, TRUE) >>
        ELSE <<>>
      dominated_by_fk(col) ==
        \E f \in DOMAIN schema.foreign_keys : schema.foreign_keys[f].column = col.name
      should_index(col) ==
        \/ col.name \in {"published", "deleted", "activity", "security_status"}
        \/ starts_with(col.name, "is_")
        \/ starts_with(col.name, "visible_")
      filtered ==
        SelectSeq(schema.columns, LAMBDA col : ~dominated_by_fk(col) /\ should_index(col))
      filter_indexes ==
        [c \in DOMAIN filtered |->
           CreateIndex(schema.name, filtered[c].name, << filtered[c].name >>, FALSE)]
  IN  fk_indexes \o name_index \o composite \o filter_indexes

(***************************************************************************)
(* The SQLite database behind rusqlite::Connection: its PRAGMA             *)
(* foreign_keys, its tables and indexes in creation order, and the         *)
(* committed rows of every table in insertion order.                       *)
(***************************************************************************)
NoRows == [n \in {} |-> <<>>]

EmptyDatabase(is_open) ==
  [ open |-> is_open, foreign_keys |-> FALSE, tables |-> <<>>, indexes |-> <<>>,
    rows |-> NoRows ]

HasTable(c, name) == \E i \in DOMAIN c.tables : c.tables[i].table = name

TableDef(c, name) == c.tables[CHOOSE i \in DOMAIN c.tables : c.tables[i].table = name]

ColumnNamesOf(def) == {def.columns[i].name : i \in DOMAIN def.columns}

ExecOk(c) == [ok |-> TRUE, conn |-> c]
ExecErr(c) == [ok |-> FALSE, conn |-> c]

(* Connection::execute of a CREATE TABLE: the name must be new *)
execute_create_table(c, ddl) ==
  IF HasTable(c, ddl.table) THEN ExecErr(c)
  ELSE ExecOk([c EXCEPT !.tables = Append(@, ddl),
                        !.rows = (ddl.table :> <<>>) @@ @])

(* Connection::execute of a CREATE INDEX: the index name must be new, the  *)
(* table and the columns must exist.  Rows already stored must satisfy a   *)
(* unique index; the writer creates every index on an empty table.         *)
execute_create_index(c, idx) ==
  IF \/ \E i \in DOMAIN c.indexes : c.indexes[i].name = idx.name
     \/ ~HasTable(c, idx.table)
     \/ \E k \in DOMAIN idx.columns : idx.columns[k] \notin ColumnNamesOf(TableDef(c, idx.table))
  THEN ExecErr(c)
  ELSE ExecOk([c EXCEPT !.indexes = Append(@, idx)])

(* The value bound for a column: row.values.get(col_name), or Null *)
bound_value(row, col_name) == IF col_name \in DOMAIN row THEN row[col_name] ELSE Null

(* The key of a row under a list of columns *)
KeyOf(row, cols) == [k \in DOMAIN cols |-> row[cols[k]]]

NullFree(key) == \A k \in DOMAIN key : key[k] # Null

UniqueIndexesOf(c, name) ==
  SelectSeq(c.indexes, LAMBDA idx : idx.table = name /\ idx.unique)

PkColumns(def) == SelectSeq(def.columns, LAMBDA col : col.pk)

(* The integer an INTEGER PRIMARY KEY column takes when NULL is bound *)
NextRowid(existing) ==
  LET ids == {existing[i]["id"].v : i \in DOMAIN existing}
  IN  IF ids = {} THEN 1 ELSE 1 + CHOOSE m \in ids : \A x \in ids : x <= m

(* The row a table stores for the bound values *)
RECURSIVE StoredRow(_, _, _, _)
StoredRow(def, row, existing, i) ==
  IF i > Len(def.columns) THEN <<>>
  ELSE LET col == def.columns[i]
           bound == bound_value(row, col.name)
       IN  (col.name :> (IF col.pk /\ bound = Null THEN Integer(NextRowid(existing))
                         ELSE bound))
           @@ StoredRow(def, row, existing, i + 1)

(* A foreign key of the stored row is satisfied: NULL, or the parent table *)
(* holds a row of that id.  Only looked at under PRAGMA foreign_keys = ON. *)
ForeignKeyHolds(c, def, existing, stored, fk) ==
  \/ stored[fk.column] = Null
  \/ /\ HasTable(c, fk.references_table)
     /\ LET parent == IF fk.references_table = def.table THEN Append(existing, stored)
                      ELSE c.rows[fk.references_table]
        IN  \E p \in DOMAIN parent :
              fk.references_column \in DOMAIN parent[p]
              /\ parent[p][fk.references_column] = stored[fk.column]

(* Statement::raw_execute of the INSERT for one row, against the rows the  *)
(* table shows inside the transaction.  NOT NULL, PRIMARY KEY and UNIQUE   *)
(* are always enforced, FOREIGN KEY only when the pragma is on.            *)
execute_insert(c, name, existing, row) ==
  LET def == TableDef(c, name)
      stored == StoredRow(def, row, existing, 1)
      uniques == UniqueIndexesOf(c, name)
      pks == PkColumns(def)
      not_null_ok ==
        \A i \in DOMAIN def.columns :
          def.columns[i].not_null => stored[def.columns[i].name] # Null
      pk_ok ==
        \A p \in DOMAIN pks : \A e \in DOMAIN existing :
          existing[e][pks[p].name] # stored[pks[p].name]
      unique_ok ==
        \A u \in DOMAIN uniques :
          LET key == KeyOf(stored, uniques[u].columns)
          IN  NullFree(key) =>
                \A e \in DOMAIN existing : KeyOf(existing[e], uniques[u].columns) # key
      fk_ok ==
        c.foreign_keys =>
          \A f \in DOMAIN def.foreign_keys :
            ForeignKeyHolds(c, def, existing, stored, def.foreign_keys[f])
  IN  IF HasTable(c, name) /\ not_null_ok /\ pk_ok /\ unique_ok /\ fk_ok
      THEN [ok |-> TRUE, rows |-> Append(existing, stored)]
      ELSE [ok |-> FALSE, rows |-> existing]

(***************************************************************************)
(* writer/sqlite.rs                                                        *)
(***************************************************************************)
BATCH_SIZE == 1000

(* A writer that leaves foreign-key enforcement on while loading *)
SqliteWriter_new_enforcing(db) == [EmptyDatabase(TRUE) EXCEPT !.foreign_keys = TRUE]

(* Optimize for bulk insert - defer FK checks until finalize.  An existing *)
(* database file is removed first.                                         *)
SqliteWriter_new(db) == [EmptyDatabase(TRUE) EXCEPT !.foreign_keys = FALSE]

(* Enable foreign keys for future use *)
finalize(c) == [c EXCEPT !.foreign_keys = TRUE]

(* A commit that loses the rows of the transaction *)
tx_commit_losing(c, name, rows) == c

(* A drop that keeps the rows inserted so far, as a commit per batch would *)
tx_drop_keeping(c, name, rows) == [c EXCEPT !.rows[name] = rows]

(* Transaction::commit: the rows of the transaction become the table's *)
tx_commit(c, name, rows) == [c EXCEPT !.rows[name] = rows]

(* Drop of a Transaction that was not committed: rollback *)
tx_drop(c, name, rows) == c

(* Get column names for a schema, expanding localized columns *)
get_column_names(schema) ==
  Flatten([i \in DOMAIN schema.columns |->
    IF schema.columns[i].col_type = "Localized"
    THEN [l \in DOMAIN LANGUAGES |-> schema.columns[i].name \o "_" \o LANGUAGES[l]]
    ELSE << schema.columns[i].name >>])

Event(stmt, table, n) == [stmt |-> stmt, table |-> table, n |-> n]

(* One iteration of the loop of create_tables: the CREATE TABLE of the     *)
(* schema, then its CREATE INDEX statements, up to the first that fails    *)
RECURSIVE execute_indexes(_, _, _, _)
execute_indexes(c, idxs, i, events) ==
  IF i > Len(idxs) THEN [ok |-> TRUE, conn |-> c, events |-> events]
  ELSE LET r == execute_create_index(c, idxs[i])
       IN  IF ~r.ok THEN [ok |-> FALSE, conn |-> c, events |-> events]
           ELSE execute_indexes(r.conn, idxs, i + 1,
                                Append(events, Event(idxs[i].stmt, idxs[i].table, 0)))

create_table(c, schema) ==
  LET r == execute_create_table(c, generate_create_table(schema))
  IN  IF ~r.ok THEN [ok |-> FALSE, conn |-> c, events |-> <<>>]
      ELSE execute_indexes(r.conn, generate_indexes(schema), 1,
                           << Event("CREATE TABLE", schema.name, 0) >>)

(* insert_batch: the rows are executed one after the other, up to the      *)
(* first that SQLite refuses                                               *)
RECURSIVE insert_batch_loop(_, _, _, _, _)
insert_batch_loop(c, name, existing, rows, i) ==
  IF i > Len(rows) THEN [ok |-> TRUE, rows |-> existing, n |-> Len(rows)]
  ELSE LET r == execute_insert(c, name, existing, rows[i])
       IN  IF ~r.ok THEN [ok |-> FALSE, rows |-> existing, n |-> i - 1]
           ELSE insert_batch_loop(c, name, r.rows, rows, i + 1)

(* No row of the batch meets a constraint: every primary key is bound and  *)
(* new, every NOT NULL column is bound, every complete key of a unique     *)
(* index is new, and foreign keys are not enforced.  Then the loop stores  *)
(* the bound values of every row as they are.                              *)
AllExecute(c, name, existing, rows) ==
  LET def == TableDef(c, name)
      pks == PkColumns(def)
      uniques == UniqueIndexesOf(c, name)
      bound == [i \in DOMAIN rows |->
                  [col \in ColumnNamesOf(def) |-> bound_value(rows[i], col)]]
      all == existing \o bound
      Distinct(cols) ==
        LET keyed == SelectSeq(all, LAMBDA r : NullFree(KeyOf(r, cols)))
        IN  Cardinality({KeyOf(keyed[i], cols) : i \in DOMAIN keyed}) = Len(keyed)
  IN  /\ HasTable(c, name)
      /\ ~c.foreign_keys
      /\ \A i \in DOMAIN bound : \A k \in DOMAIN def.columns :
           (def.columns[k].not_null \/ def.columns[k].pk) =>
             bound[i][def.columns[k].name] # Null
      /\ \A p \in DOMAIN pks : Distinct(<< pks[p].name >>)
      /\ \A u \in DOMAIN uniques : Distinct(uniques[u].columns)

(* Insert a batch of rows into the database *)
insert_batch(c, name, existing, rows) ==
  IF AllExecute(c, name, existing, rows)
  THEN [ok |-> TRUE,
        rows |-> existing \o [i \in DOMAIN rows |->
                                StoredRow(TableDef(c, name), rows[i], existing, 1)],
        n |-> Len(rows)]
  ELSE insert_batch_loop(c, name, existing, rows, 1)

Report(current, total, label) == [current |-> current, total |-> total, label |-> label]

(* A loop that pushes the rows and never inserts a batch *)
push_rows_unbatched(c, name, line_total, st, rows) == [st EXCEPT !.batch = @ \o rows]

(* import_table, the body of `for row in rows` (and of the single row of a *)
(* regular table): push the row; when the batch holds BATCH_SIZE rows,     *)
(* insert it, count it, report the progress and clear it.  The rows that   *)
(* fill one batch are taken together.                                      *)
RECURSIVE push_rows(_, _, _, _, _)
push_rows(c, name, line_total, st, rows) ==
  IF Len(st.batch) + Len(rows) < BATCH_SIZE
  THEN [st EXCEPT !.batch = @ \o rows]
  ELSE LET take == BATCH_SIZE - Len(st.batch)
           full == st.batch \o SubSeq(rows, 1, take)
           r == insert_batch(c, name, st.rows, full)
       IN  IF ~r.ok
           THEN [st EXCEPT !.ok = FALSE, !.rows = r.rows, !.batch = full,
                           !.events = IF r.n > 0
                                      THEN Append(@, Event("INSERT", name, r.n)) ELSE @]
           ELSE push_rows(c, name, line_total,
                          [st EXCEPT !.rows = r.rows,
                                     !.batch = <<>>,
                                     !.count = @ + Len(full),
                                     !.events = Append(@, Event("INSERT", name, Len(full))),
                                     !.reports = Append(@, Report(st.count + Len(full),
                                                                  line_total, name))],
                          SubSeq(rows, take + 1, Len(rows)))

(* The parser import_table applies to a line of the table's file *)
parse_line(line, schema) ==
  IF schema.array_source.kind # "None" THEN parse_junction_records(line, schema)
  ELSE parse_record(line, schema)

ConvertOk(n) == [ok |-> TRUE, n |-> n, err |-> "", at |-> ""]
ConvertErr(kind, name) == [ok |-> FALSE, n |-> 0, err |-> kind, at |-> name]

(***************************************************************************)
(* The calls of the resolver and of the filter                             *)
(***************************************************************************)
MaxArgs == 2

(* Names that argument lists of more than one element are drawn from *)
NamePool ==
  {"types", "categories", "groups", "planet_schematics", "blueprint_skills",
   "nonexistent"}

SeqsUpTo(S, n) == UNION {[1..k -> S] : k \in 0..n}

ArgLists ==
  SeqsUpTo(NamePool, MaxArgs) \cup {<<n>> : n \in Range(table_names)}

(* The process image and the hasher state of a fresh process *)
Startup ==
  /\ registry = ALL_TABLES
  /\ \E seed \in HashSeeds : hasher = BucketOrder(seed)

(* No call made yet *)
NoCall ==
  /\ op = "none"
  /\ arg_include = None
  /\ arg_exclude = None
  /\ ret = Ok(<<>>)
  /\ called = "none"
  /\ pc = "start"

(* No convert run under way *)
NoConvert(dir, db) ==
  /\ input_dir = dir
  /\ tables = <<>>
  /\ conn = db
  /\ tx = None
  /\ batch = <<>>
  /\ count = 0
  /\ line_no = 0
  /\ line_count = 0
  /\ table_i = 0
  /\ total_records = 0
  /\ wpc = "idle"
  /\ result = ConvertOk(0)
  /\ log = <<>>
  /\ progress = <<>>
  /\ imported = <<>>
  /\ previous = None
  /\ output_db = db

(* The conditions of ensure_sde_downloaded: --force, whether the latest    *)
(* build is in the cache, whether the server answers                       *)
Downloads == [force : BOOLEAN, is_cached : BOOLEAN, online : BOOLEAN]

NoDownload == [force |-> FALSE, is_cached |-> FALSE, online |-> TRUE]

(* No subcommand run *)
NoSync(cmd, d) ==
  /\ command = cmd
  /\ download = d
  /\ io = <<>>

(* No parser function called yet *)
NoParse(fn, args) ==
  /\ parse_fn = fn
  /\ parse_in = args
  /\ parse_out = ParseOk(<<>>)

(* The arguments of parse_record and of parse_junction_records *)
LineOf(schema, line) == [schema |-> schema, line |-> line, key |-> "", col_type |-> ""]

Init ==
  /\ Startup
  /\ NoCall
  /\ NoConvert(<<>>, EmptyDatabase(FALSE))
  /\ NoSync("none", NoDownload)
  /\ NoParse("none", LineOf("", BlankLine))

ResolveIncludes ==
  \E requested \in ArgLists :
    /\ pc = "start"
    /\ wpc = "idle"
    /\ pc' = "done"
    /\ op' = "resolve_includes"
    /\ arg_include' = Some(requested)
    /\ arg_exclude' = None
    /\ ret' = resolve_includes(requested, hasher)
    /\ called' = "none"
    /\ UNCHANGED <<registry, hasher, writer_vars, sync_vars, parser_vars>>

ResolveExcludes ==
  \E excluded \in ArgLists :
    /\ pc = "start"
    /\ wpc = "idle"
    /\ pc' = "done"
    /\ op' = "resolve_excludes"
    /\ arg_include' = None
    /\ arg_exclude' = Some(excluded)
    /\ ret' = resolve_excludes(excluded, hasher)
    /\ called' = "none"
    /\ UNCHANGED <<registry, hasher, writer_vars, sync_vars, parser_vars>>

AllTablesOrdered ==
    /\ pc = "start"
    /\ wpc = "idle"
    /\ pc' = "done"
    /\ op' = "all_tables_ordered"
    /\ arg_include' = None
    /\ arg_exclude' = None
    /\ ret' = Ok(all_tables_ordered)
    /\ called' = "none"
    /\ UNCHANGED <<registry, hasher, writer_vars, sync_vars, parser_vars>>

(* The filter lists of the command line; one name is enough to tell the    *)
(* four cases of resolve_tables apart.                                     *)
FilterArgs == {None} \cup {Some(l) : l \in SeqsUpTo(NamePool, 1)}

ResolveTables ==
  \E inc \in FilterArgs, exc \in FilterArgs :
    LET r == resolve_tables(inc, exc, hasher) IN
    /\ pc = "start"
    /\ wpc = "idle"
    /\ pc' = "done"
    /\ op' = "resolve_tables"
    /\ arg_include' = inc
    /\ arg_exclude' = exc
    /\ ret' = r.res
    /\ called' = r.called
    /\ UNCHANGED <<registry, hasher, writer_vars, sync_vars, parser_vars>>

Next ==
  \/ ResolveIncludes
  \/ ResolveExcludes
  \/ AllTablesOrdered
  \/ ResolveTables

Spec == Init /\ [][Next]_vars

(***************************************************************************)
(* The convert command: main.rs run_convert, writer/sqlite.rs              *)
(* convert_to_sqlite.  The input directories hold the files of three       *)
(* groups of tables: categories.jsonl (a regular table), and               *)
(* planetSchematics.jsonl and blueprints.jsonl (a regular table and its    *)
(* junction tables each).                                                  *)
(***************************************************************************)
MaxLines == 2

(* The input directories of the runs: file name -> lines *)
InputDirs ==
  LET
      Category(k) ==
        JsonLine(JObj(<< KV("_key", JInt(k)),
                         KV("name", JObj(<< KV("de", JStr("Schiff")), KV("en", JStr("Ship")) >>)),
                         KV("published", JBool(TRUE)) >>))

      CategoryLines == {Category(1), Category(2), BlankLine, MalformedLine}

      Schematic(k, pins) ==
        JsonLine(JObj(<< KV("_key", JInt(k)),
                         KV("cycleTime", JInt(1800)),
                         KV("pins", JArr(pins)) >>))

      (* A schematic whose pins fill exactly one batch *)
      FullSchematic == Schematic(5, [i \in 1..BATCH_SIZE |-> JInt(i)])

      (* A schematic that names its first pin a second time, one pin more  *)
      (* than fills a batch                                                *)
      RepeatingSchematic ==
        Schematic(6, << JInt(1), JInt(1) >> \o [i \in 1..(BATCH_SIZE - 1) |-> JInt(i + 1)])

      (* A line that is JSON and has no _key *)
      KeylessLine == JsonLine(JObj(<< KV("cycleTime", JInt(60)) >>))

      SchematicFiles ==
        { << Schematic(5, << JInt(100), JInt(200) >>) >>,
          << Schematic(5, << JInt(100), JStr("x") >>), BlankLine >>,
          << FullSchematic >>,
          << FullSchematic, Schematic(7, << JInt(100) >>) >>,
          << FullSchematic, KeylessLine >>,
          << RepeatingSchematic >> }

      Skill(type_id, level) == JObj(<< KV("level", JInt(level)), KV("typeID", JInt(type_id)) >>)

      Activity(name, skills) == KV(name, JObj(<< KV("skills", JArr(skills)), KV("time", JInt(600)) >>))

      Blueprint(k, activities) ==
        JsonLine(JObj(<< KV("_key", JInt(k)),
                         KV("activities", JObj(activities)),
                         KV("blueprintTypeID", JInt(k)),
                         KV("maxProductionLimit", JInt(10)) >>))

      BlueprintFiles ==
        { << Blueprint(1, << Activity("manufacturing", << Skill(5, 1), Skill(6, 2) >>) >>) >>,
          << Blueprint(1, << Activity("copying", << Skill(5, 1) >>),
                             Activity("manufacturing", << Skill(5, 1) >>) >>) >>,
          << Blueprint(1, << Activity("copying", << Skill(5, 1) >>) >>),
             Blueprint(2, << Activity("copying", << Skill(5, 1) >>) >>) >>,
          << Blueprint(1, << Activity("copying",
                                      << JObj(<< KV("typeID", JInt(5)) >>) >>) >>) >> }
  IN
      {<<>>}
      \cup {("categories.jsonl" :> f) : f \in SeqsUpTo(CategoryLines, MaxLines)}
      \cup {("planetSchematics.jsonl" :> f) : f \in SchematicFiles}
      \cup {("blueprints.jsonl" :> f) : f \in BlueprintFiles}

(* The --include lists of the runs *)
ConvertIncludes ==
  { << "categories" >>, << "planet_schematic_pins" >>, << "blueprint_skills" >>,
    << "nonexistent" >> }

(* A database file left by an earlier run *)
StaleDatabase ==
  [ EmptyDatabase(FALSE) EXCEPT
      !.tables = << [stmt |-> "CREATE TABLE", table |-> "categories",
                     columns |-> << [name |-> "id", sql_type |-> "INTEGER",
                                     pk |-> TRUE, not_null |-> TRUE] >>,
                     foreign_keys |-> <<>>] >>,
      !.rows = ("categories" :> << ("id" :> Integer(1)) >>) ]

(* The filters of the runs: an --include list, or both lists *)
ConvertArgs ==
  {[include |-> Some(inc), exclude |-> None] : inc \in ConvertIncludes}
  \cup {[include |-> Some(<< "categories" >>), exclude |-> Some(<< "groups" >>)]}

(* What the build directory of a sync run holds once the SDE is there *)
SyncDirs == {dir \in InputDirs : DOMAIN dir \subseteq {"blueprints.jsonl"}}

InitConvert ==
  /\ Startup
  /\ NoCall
  /\ NoParse("none", LineOf("", BlankLine))
  /\ \/ /\ \E dir \in InputDirs, db \in {EmptyDatabase(FALSE), StaleDatabase} :
            NoConvert(dir, db)
        /\ NoSync("convert", NoDownload)
     \/ /\ \E dir \in SyncDirs : NoConvert(dir, EmptyDatabase(FALSE))
        /\ \E d \in Downloads : NoSync("sync", d)

Schema(i) == get_table(tables[i])[1]

FileLines(schema) ==
  IF schema.source_file \in DOMAIN input_dir THEN Some(input_dir[schema.source_file])
  ELSE None

(* Where convert_to_sqlite goes after the table of index i is created *)
AfterCreate(i) ==
  IF i < Len(tables) THEN "create_tables"
  ELSE IF Len(tables) > 0 THEN "import" ELSE "finalize"

(* A loop over the tables that ends with the first table *)
AfterImport_first_only(i) == "finalize"

(* Where convert_to_sqlite goes after the table of index i is imported *)
AfterImport(i) == IF i < Len(tables) THEN "import" ELSE "finalize"

(* run_convert, run_sync: the table filters are resolved; on success       *)
(* convert_to_sqlite is entered with the tables, on failure the run ends   *)
ResolveFilters(name, args) ==
  LET r == resolve_tables(args.include, args.exclude, hasher) IN
  /\ pc' = "done"
  /\ op' = name
  /\ arg_include' = args.include
  /\ arg_exclude' = args.exclude
  /\ ret' = r.res
  /\ called' = r.called
  /\ IF r.res.ok
     THEN /\ tables' = r.res.tables
          /\ wpc' = "new"
          /\ result' = result
     ELSE /\ tables' = tables
          /\ wpc' = "done"
          /\ result' = ConvertErr(r.res.err, r.res.at)

(* The filters of the command line: those of the earlier run, if the       *)
(* command is being run again                                              *)
CommandLines ==
  IF previous = None THEN ConvertArgs
  ELSE {[include |-> previous[1].include, exclude |-> previous[1].exclude]}

(* run_convert: resolve the table filters, then convert *)
RunConvert ==
  \E args \in CommandLines :
    /\ command = "convert"
    /\ pc = "start"
    /\ wpc = "idle"
    /\ ResolveFilters("run_convert", args)
    /\ UNCHANGED <<registry, hasher, input_dir, conn, tx, batch, count, line_no,
                   line_count, table_i, total_records, log, progress, imported,
                   sync_vars, parser_vars, previous, output_db>>

(* download/mod.rs ensure_sde_downloaded: the cache directory is created   *)
(* and the latest build asked for; unless that build is cached and --force *)
(* is off, the archive is downloaded and extracted into the build          *)
(* directory.                                                              *)
ensure_sde_downloaded(d) ==
  LET checked == << "create_dir_all cache_dir", "GET latest.jsonl" >>
      fetched == << "GET eve-online-static-data-latest-jsonl.zip",
                    "File::create zip", "extract_zip", "remove_file zip",
                    "cleanup_old_builds" >>
  IN  IF ~d.online THEN [ok |-> FALSE, io |-> checked]
      ELSE IF ~d.force /\ d.is_cached THEN [ok |-> TRUE, io |-> checked]
      ELSE [ok |-> TRUE, io |-> checked \o fetched]

(* run_sync: download the SDE if needed, resolve the table filters, then   *)
(* convert                                                                 *)
RunSync ==
  \E args \in ConvertArgs :
    LET d == ensure_sde_downloaded(download) IN
    /\ command = "sync"
    /\ pc = "start"
    /\ wpc = "idle"
    /\ io' = d.io
    /\ IF d.ok
       THEN ResolveFilters("run_sync", args)
       ELSE /\ pc' = "done"
            /\ op' = "run_sync"
            /\ wpc' = "done"
            /\ result' = ConvertErr("Failed to fetch latest SDE info", "")
            /\ UNCHANGED <<arg_include, arg_exclude, ret, called, tables>>
    /\ UNCHANGED <<registry, hasher, input_dir, conn, tx, batch, count, line_no,
                   line_count, table_i, total_records, log, progress, imported,
                   command, download, parser_vars, previous, output_db>>

(* SqliteWriter::new *)
SqliteWriterNew ==
  /\ wpc = "new"
  /\ conn' = SqliteWriter_new(conn)
  /\ log' = Append(log, Event("PRAGMA foreign_keys = OFF", "", 0))
  /\ table_i' = 1
  /\ wpc' = AfterCreate(0)
  /\ UNCHANGED <<resolver_vars, sync_vars, parser_vars, previous, output_db, input_dir, tables, tx, batch, count, line_no,
                 line_count, total_records, result, progress, imported>>

(* create_tables: one iteration of its loop *)
CreateTables ==
  /\ wpc = "create_tables"
  /\ LET r == create_table(conn, Schema(table_i)) IN
     /\ conn' = r.conn
     /\ log' = log \o r.events
     /\ IF r.ok
        THEN /\ progress' = Append(progress,
                                   Report(table_i, Len(tables), "Creating tables"))
             /\ table_i' = IF table_i < Len(tables) THEN table_i + 1 ELSE 1
             /\ wpc' = AfterCreate(table_i)
             /\ result' = result
        ELSE /\ progress' = progress
             /\ table_i' = table_i
             /\ wpc' = "done"
             /\ result' = ConvertErr("Failed to create table", tables[table_i])
  /\ UNCHANGED <<resolver_vars, sync_vars, parser_vars, previous, output_db, input_dir, tables, tx, batch, count, line_no,
                 line_count, total_records, imported>>

(* import_table: the source file is not there *)
ImportTableSkipped ==
  /\ wpc = "import"
  /\ FileLines(Schema(table_i)) = None
  /\ line_count' = 0
  /\ imported' = Append(imported, [table |-> tables[table_i], ret |-> ConvertOk(0)])
  /\ table_i' = table_i + 1
  /\ wpc' = AfterImport(table_i)
  /\ UNCHANGED <<resolver_vars, sync_vars, parser_vars, previous, output_db, input_dir, tables, conn, tx, batch, count, line_no,
                 total_records, result, log, progress>>

(* import_table: the file is opened and the transaction begun *)
ImportTableBegin ==
  /\ wpc = "import"
  /\ FileLines(Schema(table_i)) # None
  /\ line_count' = Len(FileLines(Schema(table_i))[1])
  /\ tx' = Some(conn.rows[tables[table_i]])
  /\ log' = Append(log, Event("BEGIN", tables[table_i], 0))
  /\ count' = 0
  /\ batch' = <<>>
  /\ line_no' = 1
  /\ wpc' = "lines"
  /\ UNCHANGED <<resolver_vars, sync_vars, parser_vars, previous, output_db, input_dir, tables, conn, table_i, total_records,
                 result, progress, imported>>

Lines == FileLines(Schema(table_i))[1]

(* import_table returns an error: the transaction is dropped, and          *)
(* convert_to_sqlite returns the error                                     *)
ImportFails(kind, events, reports) ==
  /\ conn' = tx_drop(conn, tables[table_i], tx[1])
  /\ tx' = None
  /\ batch' = <<>>
  /\ log' = Append(events, Event("ROLLBACK", tables[table_i], 0))
  /\ imported' = Append(imported, [table |-> tables[table_i],
                                   ret |-> ConvertErr(kind, tables[table_i])])
  /\ result' = ConvertErr(kind, tables[table_i])
  /\ wpc' = "done"
  /\ progress' = reports
  /\ UNCHANGED <<resolver_vars, sync_vars, parser_vars, previous, output_db, input_dir, tables, count, line_no, line_count,
                 table_i, total_records>>

(* import_table: a blank line is passed over *)
ImportBlankLine ==
  /\ wpc = "lines"
  /\ line_no <= Len(Lines)
  /\ Lines[line_no].kind = "blank"
  /\ line_no' = line_no + 1
  /\ UNCHANGED <<resolver_vars, sync_vars, parser_vars, previous, output_db, input_dir, tables, conn, tx, batch, count,
                 line_count, table_i, total_records, wpc, result, log, progress,
                 imported>>

(* import_table: the line does not parse *)
ImportParseError ==
  /\ wpc = "lines"
  /\ line_no <= Len(Lines)
  /\ Lines[line_no].kind # "blank"
  /\ ~parse_line(Lines[line_no], Schema(table_i)).ok
  /\ ImportFails("Failed to parse record", log, progress)

Pushed ==
  push_rows(conn, tables[table_i], line_count,
            [ok |-> TRUE, rows |-> tx[1], batch |-> batch, count |-> count,
             events |-> log, reports |-> progress],
            parse_line(Lines[line_no], Schema(table_i)).rows)

(* import_table: the line parses and its rows are pushed, the batches they *)
(* fill are inserted                                                       *)
ImportRecord ==
  /\ wpc = "lines"
  /\ line_no <= Len(Lines)
  /\ Lines[line_no].kind # "blank"
  /\ parse_line(Lines[line_no], Schema(table_i)).ok
  /\ LET st == Pushed IN
     /\ st.ok
     /\ tx' = Some(st.rows)
     /\ batch' = st.batch
     /\ count' = st.count
     /\ log' = st.events
     /\ progress' = st.reports
  /\ line_no' = line_no + 1
  /\ UNCHANGED <<resolver_vars, sync_vars, parser_vars, previous, output_db, input_dir, tables, conn, line_count, table_i,
                 total_records, wpc, result, imported>>

(* import_table: SQLite refuses a row of a full batch *)
ImportFlushError ==
  /\ wpc = "lines"
  /\ line_no <= Len(Lines)
  /\ Lines[line_no].kind # "blank"
  /\ parse_line(Lines[line_no], Schema(table_i)).ok
  /\ LET st == Pushed IN
     /\ ~st.ok
     /\ ImportFails("insert", st.events, st.reports)

FinalBatch == insert_batch(conn, tables[table_i], tx[1], batch)

(* import_table: the end of the file; the remaining batch is inserted and  *)
(* the transaction committed                                               *)
ImportTableCommit ==
  /\ wpc = "lines"
  /\ line_no > Len(Lines)
  /\ LET r == IF batch # <<>> THEN FinalBatch
              ELSE [ok |-> TRUE, rows |-> tx[1], n |-> 0]
         n == count + Len(batch)
     IN
     /\ r.ok
     /\ conn' = tx_commit(conn, tables[table_i], r.rows)
     /\ log' = (IF batch # <<>>
                THEN Append(log, Event("INSERT", tables[table_i], Len(batch)))
                ELSE log) \o << Event("COMMIT", tables[table_i], 0) >>
     /\ count' = n
     /\ imported' = Append(imported, [table |-> tables[table_i], ret |-> ConvertOk(n)])
     /\ total_records' = total_records + n
  /\ tx' = None
  /\ batch' = <<>>
  /\ table_i' = table_i + 1
  /\ wpc' = AfterImport(table_i)
  /\ UNCHANGED <<resolver_vars, sync_vars, parser_vars, previous, output_db, input_dir, tables, line_no, line_count, result,
                 progress>>

(* import_table: SQLite refuses a row of the remaining batch *)
ImportFinalBatchError ==
  /\ wpc = "lines"
  /\ line_no > Len(Lines)
  /\ batch # <<>>
  /\ LET r == FinalBatch IN
     /\ ~r.ok
     /\ ImportFails("insert",
                    IF r.n > 0 THEN Append(log, Event("INSERT", tables[table_i], r.n))
                    ELSE log,
                    progress)

(* SqliteWriter::finalize, and the return of convert_to_sqlite *)
Finalize ==
  /\ wpc = "finalize"
  /\ conn' = finalize(conn)
  /\ log' = Append(log, Event("PRAGMA foreign_keys = ON", "", 0))
  /\ result' = ConvertOk(total_records)
  /\ wpc' = "done"
  /\ UNCHANGED <<resolver_vars, sync_vars, parser_vars, previous, output_db, input_dir, tables, tx, batch, count, line_no,
                 line_count, table_i, total_records, progress, imported>>

NextConvert ==
  \/ RunConvert
  \/ RunSync
  \/ SqliteWriterNew
  \/ CreateTables
  \/ ImportTableSkipped
  \/ ImportTableBegin
  \/ ImportBlankLine
  \/ ImportParseError
  \/ ImportRecord
  \/ ImportFlushError
  \/ ImportTableCommit
  \/ ImportFinalBatchError
  \/ Finalize

SpecConvert == InitConvert /\ [][NextConvert]_vars


(***************************************************************************)
(* The calls of the record parser: parse_record and parse_junction_records *)
(* on a line of a table's file, extract_value on a JSON value.  The lines  *)
(* list the keys of an object in ascending order; a member marked Absent   *)
(* is left out of its object.                                              *)
(***************************************************************************)
MaxItems == 2

Absent == [t |-> "absent", v |-> 0]

Object(members) == JObj(SelectSeq(members, LAMBDA e : e.v # Absent))

(* The values an array field takes: absent, not an array, or an array of   *)
(* up to MaxItems items of the pool                                        *)
ArrayFields(pool) ==
  {Absent, JInt(3)} \cup {JArr(items) : items \in SeqsUpTo(pool, MaxItems)}

(* The arguments of extract_value: an object with or without the field, a *)
(* value of every JSON type under it, or a JSON value that is no object;  *)
(* every declared type                                                     *)
ExtractInputs ==
  LET Values ==
        { JNull, JBool(TRUE), JBool(FALSE), JInt(0), JInt(34), JInt(-1), JReal(15),
          JStr("x"), JStr("12"), JArr(<< JInt(1) >>),
          JObj(<< KV("en", JStr("x")) >>) }
      ColumnTypes == {"Integer", "Real", "Text", "Boolean", "Json", "Localized"}
  IN  {[schema |-> "", line |-> JsonLine(json), key |-> "f", col_type |-> ty] :
         json \in {Object(<< KV("f", v) >>) : v \in Values \cup {Absent}} \cup {JInt(1)},
         ty \in ColumnTypes}

(* The lines the parsers are given, each with the table whose file it is  *)
(* a line of                                                               *)
ParseInputs ==
  LET
    (* categories.jsonl: a regular table with a Localized and a Boolean column *)
    CategoryRecords ==
      {MalformedLine, JsonLine(JArr(<< JInt(1) >>))} \cup
      {JsonLine(Object(<< KV("_key", k), KV("name", n), KV("published", p) >>)) :
         k \in {Absent, JInt(1)},
         n \in {Absent, JNull, JStr("Ship"),
                JObj(<< KV("de", JStr("Schiff")), KV("en", JStr("Ship")) >>),
                JObj(<< KV("en", JInt(3)), KV("fr", JStr("Vaisseau")) >>)},
         p \in {Absent, JBool(TRUE), JStr("yes")}}

    (* groups.jsonl: a regular table with columns whose names end in _id and  *)
    (* a column of three words; the line may carry fields spelled as the     *)
    (* columns are                                                           *)
    GroupRecords ==
      {JsonLine(Object(<< KV("_key", JInt(25)), KV("categoryID", c), KV("category_id", s),
                          KV("fittableNonSingleton", f), KV("id", i) >>)) :
         c \in {Absent, JInt(6)},
         s \in {Absent, JInt(9)},
         f \in {Absent, JBool(TRUE)},
         i \in {Absent, JInt(77)}}

    (* The identifiers of a line: none, an integer, a string *)
    Keys(k) == {Absent, JInt(k), JStr("k")}

    (* typeMaterials.jsonl, for type_materials (Simple) *)
    MaterialRecords ==
      {MalformedLine} \cup
      {JsonLine(Object(<< KV("_key", k), KV("materials", a) >>)) :
         k \in Keys(7),
         a \in ArrayFields({ JObj(<< KV("materialTypeID", JInt(34)), KV("quantity", JInt(10)) >>),
                             JObj(<< KV("materialTypeID", JInt(35)) >>),
                             JObj(<< KV("materialTypeID", JStr("x")), KV("quantity", JInt(2)) >>),
                             JInt(5) })}

    (* typeBonus.jsonl, for type_role_bonuses (Simple, with a Localized       *)
    (* column), and contrabandTypes.jsonl, for contraband_type_factions       *)
    (* (Simple, with a column read from the element's _key)                  *)
    RoleBonusRecords ==
      {JsonLine(Object(<< KV("_key", JInt(7)), KV("roleBonuses", JArr(<< b >>)) >>)) :
         b \in { JObj(<< KV("bonus", JInt(5)),
                         KV("bonusText", JObj(<< KV("en", JStr("bonus to range")) >>)),
                         KV("importance", JInt(1)), KV("unitID", JInt(105)) >>),
                 JObj(<< KV("bonus", JReal(75)), KV("importance", JInt(2)) >>) }}

    ContrabandRecords ==
      {JsonLine(Object(<< KV("_key", JInt(7)), KV("factions", JArr(<< f >>)) >>)) :
         f \in { JObj(<< KV("_key", JInt(500001)), KV("fineByValue", JReal(45)),
                         KV("standingLoss", JInt(2)) >>),
                 JObj(<< KV("factionID", JInt(500001)) >>) }}

    (* blueprints.jsonl, for blueprint_materials (BlueprintActivity) *)
    BlueprintRecords ==
      {MalformedLine} \cup
      {JsonLine(Object(<< KV("_key", k), KV("activities", a), KV("blueprintTypeID", b) >>)) :
         k \in {Absent, JInt(1)},
         b \in Keys(9),
         a \in {Absent, JInt(0)} \cup
               {Object(<< KV("copying", c), KV("manufacturing", m) >>) :
                  c \in {Absent, JObj(<< KV("time", JInt(600)) >>)},
                  m \in {Absent,
                         JObj(<< KV("materials", JInt(1)) >>),
                         JObj(<< KV("materials",
                                    JArr(<< JObj(<< KV("quantity", JInt(10)),
                                                    KV("typeID", JInt(34)) >>),
                                            JObj(<< KV("typeID", JInt(35)) >>) >>)) >>)}} \cup
               {JObj(<< KV("copying",
                           JObj(<< KV("materials",
                                      JArr(<< JObj(<< KV("quantity", JInt(1)),
                                                      KV("typeID", JInt(34)) >>) >>)) >>)),
                        KV("manufacturing",
                           JObj(<< KV("materials",
                                      JArr(<< JObj(<< KV("quantity", JInt(2)),
                                                      KV("typeID", JInt(34)) >>) >>)) >>)) >>)}}

    (* masteries.jsonl, for type_masteries (DoubleNested) *)
    MasteryRecords ==
      {MalformedLine} \cup
      {JsonLine(Object(<< KV("_key", k), KV("_value", a) >>)) :
         k \in Keys(9),
         a \in ArrayFields({ JObj(<< KV("_key", JInt(0)),
                                     KV("_value", JArr(<< JInt(11), JInt(22) >>)) >>),
                             JObj(<< KV("_key", JInt(1)),
                                     KV("_value", JArr(<< JObj(<< KV("certificateID", JInt(44)) >>),
                                                          JStr("x") >>)) >>),
                             JObj(<< KV("_value", JArr(<< JInt(33) >>)) >>),
                             JObj(<< KV("_key", JInt(2)) >>),
                             JObj(<< KV("_key", JStr("3")),
                                     KV("_value", JArr(<< JInt(55) >>)) >>),
                             JInt(4) })}

    (* planetSchematics.jsonl, for planet_schematic_pins (SimpleIntArray) *)
    PinRecords ==
      {MalformedLine} \cup
      {JsonLine(Object(<< KV("_key", k), KV("pins", a) >>)) :
         k \in Keys(5),
         a \in ArrayFields({ JInt(100), JInt(200), JStr("300"), JReal(15),
                             JObj(<< KV("typeID", JInt(400)) >>) })}

    (* typeBonus.jsonl, for type_trait_bonuses (NestedKeyValue) *)
    TraitRecords ==
      {MalformedLine} \cup
      {JsonLine(Object(<< KV("_key", k), KV("types", a) >>)) :
         k \in Keys(7),
         a \in ArrayFields({ JObj(<< KV("_key", JInt(3300)),
                                     KV("_value", JArr(<< JObj(<< KV("bonus", JInt(5)),
                                                                  KV("importance", JInt(1)),
                                                                  KV("isPositive", JBool(TRUE)),
                                                                  KV("unitID", JInt(105)) >>) >>)) >>),
                             JObj(<< KV("_value", JArr(<< JObj(<< KV("bonus", JInt(5)) >>) >>)) >>) })}
  IN
    {LineOf("categories", l) : l \in CategoryRecords}
    \cup {LineOf("groups", l) : l \in GroupRecords}
    \cup {LineOf("type_materials", l) : l \in MaterialRecords}
    \cup {LineOf("type_role_bonuses", l) : l \in RoleBonusRecords}
    \cup {LineOf("contraband_type_factions", l) : l \in ContrabandRecords}
    \cup {LineOf("blueprint_materials", l) : l \in BlueprintRecords}
    \cup {LineOf("type_masteries", l) : l \in MasteryRecords}
    \cup {LineOf("planet_schematic_pins", l) : l \in PinRecords}
    \cup {LineOf("type_trait_bonuses", l) : l \in TraitRecords}

InitParse ==
  /\ Startup
  /\ NoCall
  /\ NoConvert(<<>>, EmptyDatabase(FALSE))
  /\ NoSync("none", NoDownload)
  /\ \E args \in ParseInputs \cup ExtractInputs
                \cup {LineOf(n, BlankLine) : n \in Range(table_names)} :
       NoParse("none", args)

ParseSchema == get_table(parse_in.schema)[1]

(* The call returns: nothing but the parser's variables changes *)
Returns(fn, out) ==
  /\ parse_fn = "none"
  /\ parse_fn' = fn
  /\ parse_out' = out
  /\ UNCHANGED <<resolver_vars, writer_vars, sync_vars, parse_in>>

ParseRecord ==
  /\ parse_in.schema # ""
  /\ ParseSchema.array_source.kind = "None"
  /\ Returns("parse_record", parse_record(parse_in.line, ParseSchema))

ParseJunctionRecords ==
  /\ parse_in.schema # ""
  /\ ParseSchema.array_source.kind # "None"
  /\ Returns("parse_junction_records", parse_junction_records(parse_in.line, ParseSchema))

ExtractValue ==
  /\ parse_in.schema = ""
  /\ Returns("extract_value",
             ParseOk(<< ("value" :> extract_value(parse_in.line.json, parse_in.key,
                                                  parse_in.col_type)) >>))

(* The functions of a schema alone are called for every schema of the     *)
(* registry                                                                *)
GenerateCreateTable ==
  /\ parse_in.schema # ""
  /\ parse_in.line.kind = "blank"
  /\ Returns("generate_create_table", generate_create_table(ParseSchema))

GenerateIndexes ==
  /\ parse_in.schema # ""
  /\ parse_in.line.kind = "blank"
  /\ Returns("generate_indexes", generate_indexes(ParseSchema))

Dependencies ==
  /\ parse_in.schema # ""
  /\ parse_in.line.kind = "blank"
  /\ Returns("dependencies", dependencies(ParseSchema))

NextParse ==
  \/ ParseRecord
  \/ ParseJunctionRecords
  \/ ExtractValue
  \/ GenerateCreateTable
  \/ GenerateIndexes
  \/ Dependencies

SpecParse == InitParse /\ [][NextParse]_vars

(***************************************************************************)
(* The convert command run twice on the same input.  The input directories *)
(* hold one file each: blueprints.jsonl with rows for two or three of the  *)
(* junction tables read from it, planetSchematics.jsonl, categories.jsonl. *)
(***************************************************************************)
RerunDirs ==
  LET
      Skill(type_id) == JObj(<< KV("level", JInt(1)), KV("typeID", JInt(type_id)) >>)

      Material(type_id) == JObj(<< KV("quantity", JInt(10)), KV("typeID", JInt(type_id)) >>)

      (* A blueprint that is copied with one skill from two materials *)
      Blueprint(k, material) ==
        JsonLine(JObj(<< KV("_key", JInt(k)),
                         KV("activities",
                            JObj(<< KV("copying",
                                       JObj(<< KV("materials",
                                                  JArr(<< Material(34), Material(material) >>)),
                                               KV("skills", JArr(<< Skill(5) >>)),
                                               KV("time", JInt(600)) >>)) >>)),
                         KV("blueprintTypeID", JInt(k)),
                         KV("maxProductionLimit", JInt(10)) >>))

      Schematic(k, pins) ==
        JsonLine(JObj(<< KV("_key", JInt(k)),
                         KV("cycleTime", JInt(1800)),
                         KV("pins", JArr(pins)) >>))

      Category(k) ==
        JsonLine(JObj(<< KV("_key", JInt(k)), KV("published", JBool(TRUE)) >>))
  IN
      { <<>>,
        ("blueprints.jsonl" :> << Blueprint(1, 35), Blueprint(2, 35) >>),
        (* the second blueprint names the material 34 twice *)
        ("blueprints.jsonl" :> << Blueprint(1, 35), Blueprint(2, 34) >>),
        ("planetSchematics.jsonl" :> << Schematic(5, << JInt(100), JInt(200) >>) >>),
        ("planetSchematics.jsonl" :>
           << Schematic(6, << JInt(1), JInt(1) >> \o [i \in 1..(BATCH_SIZE - 1) |-> JInt(i + 1)]) >>),
        ("planetSchematics.jsonl" :> << Schematic(5, << JInt(100), JInt(100) >>) >>),
        ("categories.jsonl" :> << Category(1), BlankLine, Category(2) >>),
        ("categories.jsonl" :> << Category(1), MalformedLine >>) }

InitRerun ==
  /\ Startup
  /\ NoCall
  /\ NoParse("none", LineOf("", BlankLine))
  /\ \/ /\ \E dir \in RerunDirs, db \in {EmptyDatabase(FALSE), StaleDatabase} :
            NoConvert(dir, db)
        /\ NoSync("convert", NoDownload)
     \/ /\ NoConvert(<<>>, EmptyDatabase(FALSE))
        /\ \E d \in Downloads : NoSync("sync", d)

(* The convert command is run a second time: by a fresh process, on the    *)
(* same input directory, with the same filters, and with no file at the    *)
(* output path.  What the earlier run was given and what it left is kept.  *)
RunAgain ==
  /\ command = "convert"
  /\ wpc = "done"
  /\ previous = None
  /\ previous' = Some([output_db |-> output_db, tables |-> tables, include |-> arg_include,
                       exclude |-> arg_exclude, conn |-> conn, result |-> result])
  /\ \E seed \in HashSeeds : hasher' = BucketOrder(seed)
  /\ op' = "none"
  /\ arg_include' = None
  /\ arg_exclude' = None
  /\ ret' = Ok(<<>>)
  /\ called' = "none"
  /\ pc' = "start"
  /\ tables' = <<>>
  /\ conn' = EmptyDatabase(FALSE)
  /\ output_db' = EmptyDatabase(FALSE)
  /\ tx' = None
  /\ batch' = <<>>
  /\ count' = 0
  /\ line_no' = 0
  /\ line_count' = 0
  /\ table_i' = 0
  /\ total_records' = 0
  /\ wpc' = "idle"
  /\ result' = ConvertOk(0)
  /\ log' = <<>>
  /\ progress' = <<>>
  /\ imported' = <<>>
  /\ UNCHANGED <<registry, input_dir, sync_vars, parser_vars>>

NextRerun ==
  \/ NextConvert
  \/ RunAgain

SpecRerun == InitRerun /\ [][NextRerun]_vars
(***************************************************************************)
(* Properties of the resolver                                              *)
(***************************************************************************)
Known(n) == \E i \in DOMAIN registry : registry[i].name = n

SchemaOf(n) == registry[CHOOSE i \in DOMAIN registry : registry[i].name = n]

(* The tables that table n has a foreign key to *)
FkTargets(n) ==
  {SchemaOf(n).foreign_keys[k].references_table :
     k \in DOMAIN SchemaOf(n).foreign_keys}

ResolverReturned ==
  /\ pc = "done"
  /\ op \in {"resolve_includes", "resolve_excludes", "all_tables_ordered"}
  /\ ret.ok

(* C1: in every list returned by resolve_includes, resolve_excludes or     *)
(* all_tables_ordered, a table T2 that another table T1 of the list has a  *)
(* foreign key to stands at a smaller index than T1.                       *)
C1_ParentsPrecedeChildren ==
  ResolverReturned =>
    \A i \in DOMAIN ret.tables :
      \A t2 \in FkTargets(ret.tables[i]) \ {ret.tables[i]} :
        \A j \in DOMAIN ret.tables : ret.tables[j] = t2 => j < i

(* A sort of most of the registry, iterated in an order that is not the    *)
(* registry's, in which types and its parent groups both stand.            *)
C1_Witness ==
  /\ ResolverReturned
  /\ op = "resolve_excludes"
  /\ hasher # table_names
  /\ Len(ret.tables) > 30
  /\ {"types", "groups"} \subseteq Range(ret.tables)

SingleInclude ==
  /\ pc = "done"
  /\ op = "resolve_includes"
  /\ Len(arg_include[1]) = 1
  /\ Known(arg_include[1][1])

(* C2 as stated: resolve_includes([N]) succeeds for every registry name N, *)
(* and every table referenced by a foreign key of a table T of the result  *)
(* is in the result at a strictly earlier position than T.                 *)
C2_Original ==
  SingleInclude =>
    /\ ret.ok
    /\ \A i \in DOMAIN ret.tables :
         \A p \in FkTargets(ret.tables[i]) :
           \E j \in DOMAIN ret.tables : j < i /\ ret.tables[j] = p

(* C2 as amended: resolve_includes([N]) succeeds for every registry name   *)
(* N, and every table other than T itself that a foreign key of a table T  *)
(* of the result references is in the result at a strictly earlier         *)
(* position than T.                                                        *)
C2_ParentsIncludedEarlier ==
  SingleInclude =>
    /\ ret.ok
    /\ \A i \in DOMAIN ret.tables :
         \A p \in FkTargets(ret.tables[i]) \ {ret.tables[i]} :
           \E j \in DOMAIN ret.tables : j < i /\ ret.tables[j] = p

(* resolve_includes(["market_groups"]): the table references itself and    *)
(* icons; icons comes first.                                               *)
C2_Witness ==
  /\ SingleInclude
  /\ arg_include[1] = <<"market_groups">>
  /\ "market_groups" \in FkTargets("market_groups")
  /\ ret.ok
  /\ ret.tables = <<"icons", "market_groups">>

(* The declared child tables of table n *)
ChildTables(n) == Range(SchemaOf(n).child_tables)

RECURSIVE Closure(_)
(* The smallest set that contains S and, with a table, its foreign-key     *)
(* parents and its declared child tables.                                  *)
Closure(S) ==
  LET more == UNION {FkTargets(n) \cup ChildTables(n) : n \in S}
  IN  IF more \subseteq S THEN S ELSE Closure(S \cup more)

(* C3: for a list L of known names, resolve_includes(L) returns, each      *)
(* exactly once, exactly the tables of the smallest set that contains L    *)
(* and is closed under foreign-key parent and declared child table.        *)
C3_IncludesIsClosure ==
  (/\ pc = "done"
   /\ op = "resolve_includes"
   /\ \A i \in DOMAIN arg_include[1] : Known(arg_include[1][i])) =>
    /\ ret.ok
    /\ Range(ret.tables) = Closure(Range(arg_include[1]))
    /\ Cardinality(Range(ret.tables)) = Len(ret.tables)

(* resolve_includes(["planet_schematics"]) brings in the child table       *)
(* planet_schematic_pins, the child's parent types and that table's parent *)
(* groups.                                                                 *)
C3_Witness ==
  /\ pc = "done"
  /\ op = "resolve_includes"
  /\ arg_include[1] = <<"planet_schematics">>
  /\ ret.ok
  /\ {"planet_schematic_pins", "types", "groups"} \subseteq Range(ret.tables)
  /\ "blueprints" \notin Range(ret.tables)

(* C4: resolve_includes(L) and resolve_excludes(L) return an 'Unknown      *)
(* table' error, and no table list, whenever some name of L is not in the  *)
(* registry, wherever it stands in L.                                      *)
C4_UnknownTableFails ==
  \A o \in {"resolve_includes", "resolve_excludes"} :
    LET l == IF o = "resolve_includes" THEN arg_include ELSE arg_exclude IN
    (/\ pc = "done"
     /\ op = o
     /\ \E i \in DOMAIN l[1] : ~Known(l[1][i])) =>
      /\ ~ret.ok
      /\ ret.err = "Unknown table"
      /\ ~Known(ret.at)
      /\ ret.tables = <<>>

(* resolve_excludes with the unknown name behind a known one *)
C4_Witness ==
  /\ pc = "done"
  /\ op = "resolve_excludes"
  /\ arg_exclude[1] = <<"types", "nonexistent">>
  /\ ~ret.ok

(* C5: for a list E of known names, resolve_excludes(E) returns exactly    *)
(* the registry tables that are not in E and have no foreign key into E;   *)
(* a table whose foreign key references a table dropped only by this       *)
(* cascade stays.                                                          *)
C5_ExcludesShallowCascade ==
  (/\ pc = "done"
   /\ op = "resolve_excludes"
   /\ \A i \in DOMAIN arg_exclude[1] : Known(arg_exclude[1][i])) =>
    LET E == Range(arg_exclude[1])
        kept == {registry[i].name : i \in
                   {j \in DOMAIN registry :
                      /\ registry[j].name \notin E
                      /\ FkTargets(registry[j].name) \cap E = {}}}
    IN  /\ ret.ok
        /\ Range(ret.tables) = kept
        /\ Cardinality(kept) = Len(ret.tables)

(* resolve_excludes(["categories"]): groups goes with its parent, types    *)
(* stays although its parent groups is gone.                               *)
C5_Witness ==
  /\ pc = "done"
  /\ op = "resolve_excludes"
  /\ arg_exclude[1] = <<"categories">>
  /\ ret.ok
  /\ "groups" \notin Range(ret.tables)
  /\ "groups" \in FkTargets("types")
  /\ "types" \in Range(ret.tables)

(* C6: resolve_tables fails with a usage error, without calling a resolver *)
(* operation, when both lists are supplied; with neither it returns the    *)
(* registry in its order; with one it returns that operation's result.     *)
C6_ResolveTablesDispatch ==
  (pc = "done" /\ op = "resolve_tables") =>
    /\ (arg_include # None /\ arg_exclude # None) =>
         /\ ~ret.ok
         /\ ret.err = "Cannot use both --include and --exclude at the same time"
         /\ ret.tables = <<>>
         /\ called = "none"
    /\ (arg_include = None /\ arg_exclude = None) =>
         /\ ret.ok
         /\ Len(ret.tables) = Len(registry)
         /\ \A i \in DOMAIN registry : ret.tables[i] = registry[i].name
    /\ (arg_include # None /\ arg_exclude = None) =>
         /\ called = "resolve_includes"
         /\ ret = resolve_includes(arg_include[1], hasher)
    /\ (arg_include = None /\ arg_exclude # None) =>
         /\ called = "resolve_excludes"
         /\ ret = resolve_excludes(arg_exclude[1], hasher)

(* Both lists supplied, each of them valid on its own *)
C6_Witness ==
  /\ pc = "done"
  /\ op = "resolve_tables"
  /\ arg_include = Some(<<"types">>)
  /\ arg_exclude = Some(<<"categories">>)
  /\ ~ret.ok


(***************************************************************************)
(* Properties of the convert pipeline                                      *)
(***************************************************************************)
IsDDL(e) == e.stmt \in {"CREATE TABLE", "CREATE INDEX", "CREATE UNIQUE INDEX"}

(* A statement of the import of a table: its transaction and its inserts *)
IsImportOf(e, name) == e.table = name /\ e.stmt \in {"BEGIN", "INSERT", "COMMIT", "ROLLBACK"}

Executed(stmt) == \E i \in DOMAIN log : log[i].stmt = stmt

(* import_table has returned for the table *)
Returned(name) == \E m \in DOMAIN imported : imported[m].table = name

ReturnOf(name) == imported[CHOOSE m \in DOMAIN imported : imported[m].table = name].ret

(* C7: in convert_to_sqlite every CREATE TABLE and CREATE INDEX of every   *)
(* selected table is executed before the first INSERT into any table, and  *)
(* foreign-key enforcement is off from the opening of the connection until *)
(* the import of every table has returned successfully; it is switched on  *)
(* only after that, in finalize.                                           *)
C7_SchemaFirstEnforcementLast ==
  /\ \A j \in DOMAIN log :
       log[j].stmt = "INSERT" => \A i \in j..Len(log) : ~IsDDL(log[i])
  /\ Executed("INSERT") =>
       \A k \in DOMAIN tables :
         LET idxs == generate_indexes(Schema(k)) IN
         /\ HasTable(conn, tables[k])
         /\ \A x \in DOMAIN idxs :
              \E y \in DOMAIN conn.indexes : conn.indexes[y] = idxs[x]
  /\ (conn.open /\ wpc # "done") => ~conn.foreign_keys
  /\ conn.foreign_keys =>
       /\ wpc = "done"
       /\ result.ok
       /\ Len(imported) = Len(tables)
       /\ \A m \in DOMAIN imported : imported[m].ret.ok
       /\ log[Len(log)].stmt = "PRAGMA foreign_keys = ON"
       /\ \A i \in 1..(Len(log) - 1) : log[i].stmt # "PRAGMA foreign_keys = ON"

(* A run over several tables that inserted rows and was finalized *)
C7_Witness ==
  /\ wpc = "done"
  /\ result.ok
  /\ conn.foreign_keys
  /\ Len(tables) > 1
  /\ Executed("INSERT")
  /\ Executed("CREATE UNIQUE INDEX")

(* C8 as stated: for two consecutive tables A then B of the ordered list,  *)
(* A is fully created and fully imported (all of its INSERTs and its       *)
(* commit) before the CREATE TABLE of B is executed.                       *)
C8_Original ==
  \A k \in 1..(Len(tables) - 1) : \A j \in DOMAIN log :
    (log[j].stmt = "CREATE TABLE" /\ log[j].table = tables[k + 1]) =>
      /\ \E i \in 1..(j - 1) : log[i].stmt = "CREATE TABLE" /\ log[i].table = tables[k]
      /\ \A i \in DOMAIN log : IsImportOf(log[i], tables[k]) => i < j
      /\ Returned(tables[k])

(* C8 as amended: for two consecutive tables A then B of the ordered list, *)
(* the CREATE TABLE and the CREATE INDEX statements of A are executed      *)
(* before the CREATE TABLE of B, and A is fully imported (all of its       *)
(* INSERTs and its commit, after which the table holds the rows counted)   *)
(* before the first statement of the import of B.                          *)
C8_CreatedInOrderImportedInOrder ==
  \A k \in 1..(Len(tables) - 1) :
    LET A == tables[k]
        B == tables[k + 1]
    IN  /\ \A j \in DOMAIN log :
             (log[j].stmt = "CREATE TABLE" /\ log[j].table = B) =>
               /\ \E i \in 1..(j - 1) : log[i] = Event("CREATE TABLE", A, 0)
               /\ \A i \in j..Len(log) : ~(IsDDL(log[i]) /\ log[i].table = A)
        /\ \A j \in DOMAIN log :
             IsImportOf(log[j], B) =>
               \A i \in j..Len(log) : ~IsImportOf(log[i], A)
        /\ ((\E j \in DOMAIN log : IsImportOf(log[j], B)) \/ Returned(B)) =>
             /\ Returned(A)
             /\ ReturnOf(A).ok
             /\ Len(conn.rows[A]) = ReturnOf(A).n
             /\ \A i \in DOMAIN log :
                  (log[i].stmt = "BEGIN" /\ log[i].table = A) =>
                    \E j \in DOMAIN log : j > i /\ log[j].stmt = "COMMIT" /\ log[j].table = A

(* Two consecutive tables that both read a file: the first has committed   *)
(* rows, the second has inserted                                           *)
C8_Witness ==
  \E k \in 1..(Len(tables) - 1) :
    /\ Returned(tables[k])
    /\ ReturnOf(tables[k]).n > 0
    /\ \E j \in DOMAIN log : log[j].stmt = "INSERT" /\ log[j].table = tables[k + 1]

NonBlank(lines) == SelectSeq(lines, LAMBDA line : line.kind # "blank")

AllParse(schema, lines) ==
  \A l \in DOMAIN lines : lines[l].kind # "blank" => parse_line(lines[l], schema).ok

(* C9: when a non-blank line of a table's file does not parse,             *)
(* import_table returns an error, no row of that table is committed (the   *)
(* rows of batches inserted before the line included), no later table is   *)
(* imported, and finalize is not run.                                      *)
C9_ParseFailureAborts ==
  /\ \A m \in DOMAIN imported :
       LET schema == get_table(imported[m].table)[1] IN
       (imported[m].ret.ok /\ FileLines(schema) # None) =>
         AllParse(schema, FileLines(schema)[1])
  /\ \A m \in DOMAIN imported :
       imported[m].ret.err = "Failed to parse record" =>
         LET failed == imported[m].table IN
         /\ m = Len(imported)
         /\ wpc = "done"
         /\ result = ConvertErr("Failed to parse record", failed)
         /\ tx = None
         /\ conn.rows[failed] = <<>>
         /\ ~conn.foreign_keys
         /\ ~Executed("PRAGMA foreign_keys = ON")
         /\ tables[m] = failed
         /\ \A k \in (m + 1)..Len(tables) : \A i \in DOMAIN log :
              ~IsImportOf(log[i], tables[k])

(* A line failed to parse after a full batch of the table was inserted *)
C9_Witness ==
  /\ wpc = "done"
  /\ result.err = "Failed to parse record"
  /\ \E i \in DOMAIN log :
       /\ log[i] = Event("INSERT", result.at, BATCH_SIZE)
       /\ log[Len(log)] = Event("ROLLBACK", result.at, 0)
  /\ Len(imported) < Len(tables)

(* The rows the parser emits for the lines of a file *)
EmittedRows(schema, lines) ==
  Flatten([l \in DOMAIN lines |->
             IF lines[l].kind = "blank" THEN <<>> ELSE parse_line(lines[l], schema).rows])

(* The table stores the row: the values bound, and an integer where NULL   *)
(* was bound to the primary key                                            *)
Stores(stored, row) ==
  \A col \in DOMAIN stored :
    \/ stored[col] = bound_value(row, col)
    \/ col = "id" /\ bound_value(row, col) = Null /\ stored[col].t = "Integer"

(* C10 as stated: when the file of a table exists and every non-blank line *)
(* of it parses, import_table returns Ok(n) with n the number of rows the  *)
(* parser emitted, and the table then holds exactly those n rows, whatever *)
(* the values of the rows.                                                 *)
C10_Original ==
  \A m \in DOMAIN imported :
    LET schema == get_table(imported[m].table)[1]
        file == FileLines(schema)
    IN  (file # None /\ AllParse(schema, file[1])) =>
          LET emitted == EmittedRows(schema, file[1])
              held == conn.rows[schema.name]
          IN  /\ imported[m].ret = ConvertOk(Len(emitted))
              /\ Len(held) = Len(emitted)
              /\ \A i \in DOMAIN held : Stores(held[i], emitted[i])

(***************************************************************************)
(* Properties of the import of one table                                   *)
(***************************************************************************)
(* Two of the rows agree on a primary key or on the complete key of a      *)
(* unique index of the table                                               *)
KeysCollide(name, rows) ==
  LET def == TableDef(conn, name)
      pks == PkColumns(def)
      uniques == UniqueIndexesOf(conn, name)
      keys == {<< pks[p].name >> : p \in DOMAIN pks}
              \cup {uniques[u].columns : u \in DOMAIN uniques}
      key(i, cols) == [k \in DOMAIN cols |-> bound_value(rows[i], cols[k])]
  IN  \E cols \in keys : \E i \in DOMAIN rows : \E j \in (i + 1)..Len(rows) :
        NullFree(key(i, cols)) /\ key(i, cols) = key(j, cols)

(* Every row carries its identifier: the primary key is bound *)
IdentifiersBound(name, rows) ==
  LET pks == PkColumns(TableDef(conn, name))
  IN  \A p \in DOMAIN pks : \A i \in DOMAIN rows :
        bound_value(rows[i], pks[p].name) # Null

(* C11 as stated: when every non-blank line of a table's file parses and   *)
(* the rows carry their identifiers and do not collide on a key, the       *)
(* import succeeds and stores every row, NULL where a field was absent,    *)
(* null or of another type, in nullable and in required columns alike.     *)
C11_Original ==
  \A m \in DOMAIN imported :
    LET schema == get_table(imported[m].table)[1]
        file == FileLines(schema)
    IN  (file # None /\ AllParse(schema, file[1])) =>
          LET emitted == EmittedRows(schema, file[1])
              held == conn.rows[schema.name]
          IN  (IdentifiersBound(schema.name, emitted)
               /\ ~KeysCollide(schema.name, emitted)) =>
                /\ imported[m].ret = ConvertOk(Len(emitted))
                /\ Len(held) = Len(emitted)
                /\ \A i \in DOMAIN held : Stores(held[i], emitted[i])

(* C13: when the source file of a selected table is absent, import_table   *)
(* returns 0 without error and executes no statement; the table exists and *)
(* is empty, and the run goes on with the next table of the list (or, past *)
(* the last table, with finalize).                                         *)
C13_MissingFileSkipped ==
  \A m \in DOMAIN imported :
    LET name == imported[m].table IN
    FileLines(get_table(name)[1]) = None =>
      /\ tables[m] = name
      /\ imported[m].ret = ConvertOk(0)
      /\ \A i \in DOMAIN log : ~IsImportOf(log[i], name)
      /\ HasTable(conn, name)
      /\ conn.rows[name] = <<>>
      /\ m < Len(tables) =>
           \/ Len(imported) > m
           \/ wpc \in {"import", "lines"} /\ table_i = m + 1
      /\ m = Len(tables) =>
           \/ wpc = "finalize"
           \/ wpc = "done" /\ result.ok /\ conn.foreign_keys

(* A finished run in which a table without a file was passed over and a    *)
(* later table of the list was imported with rows                          *)
C13_Witness ==
  /\ wpc = "done"
  /\ result.ok
  /\ \E m \in DOMAIN imported : \E k \in (m + 1)..Len(imported) :
       /\ FileLines(get_table(imported[m].table)[1]) = None
       /\ imported[m].ret = ConvertOk(0)
       /\ HasTable(conn, imported[m].table)
       /\ imported[k].ret.ok
       /\ imported[k].ret.n > 0
       /\ Len(conn.rows[imported[k].table]) = imported[k].ret.n

(* The run ended on a schema error *)
SchemaError ==
  /\ wpc = "done"
  /\ ~result.ok
  /\ result.err \in {"Unknown table", "Circular dependency detected at",
                     "Cannot use both --include and --exclude at the same time"}

(* C14 as stated: in the sync and in the convert command, when the run     *)
(* ends on a schema error, no network request was made, nothing was        *)
(* downloaded or written, no source file was read and the database was not *)
(* opened.                                                                 *)
C14_Original ==
  SchemaError =>
    /\ io = <<>>
    /\ ~conn.open
    /\ log = <<>>
    /\ imported = <<>>
    /\ progress = <<>>

(***************************************************************************)
(* Properties of the record parser                                         *)
(***************************************************************************)
ParsedLine ==
  /\ parse_fn \in {"parse_record", "parse_junction_records"}
  /\ parse_in.line.kind = "json"

Member(json, key) == json_get(json, key)

IsInt(found) == found # None /\ found[1].t = "int"

IsArray(found) == found # None /\ found[1].t = "arr"

(* The line lacks the identifier of its table *)
LacksIdentifier(schema, json) ==
  IF schema.array_source.kind = "BlueprintActivity"
  THEN Member(json, "blueprintTypeID") = None /\ Member(json, "_key") = None
  ELSE Member(json, "_key") = None

(* C12 as stated: parsing a line that is not valid JSON, or that lacks its *)
(* identifier (_key, or for a BlueprintActivity table blueprintTypeID or   *)
(* else _key), fails with an error and emits no row, for simple tables and *)
(* for junction tables of every kind.                                      *)
C12_Original ==
  (/\ parse_fn \in {"parse_record", "parse_junction_records"}
   /\ \/ parse_in.line.kind = "malformed"
      \/ /\ parse_in.line.kind = "json"
         /\ LacksIdentifier(ParseSchema, parse_in.line.json)) =>
    /\ ~parse_out.ok
    /\ parse_out.rows = <<>>

(* The value agrees with the coercion of what was found under the field to *)
(* the declared scalar type                                                *)
CoercedFrom(value, col_type, found) ==
  IF found = None \/ found = Some(JNull) THEN value = Null
  ELSE LET t == found[1].t
           v == found[1].v
       IN  CASE col_type = "Integer" ->
                  /\ t = "int" => value = Integer(v)
                  /\ t \notin {"int", "real"} => value = Null
             [] col_type = "Real" ->
                  /\ t = "int" => value = Real(10 * v)
                  /\ t = "real" => value = Real(v)
                  /\ t \notin {"int", "real"} => value = Null
             [] col_type = "Text" ->
                  /\ t = "str" => value = Text(v)
                  /\ t # "str" => value = Null
             [] col_type = "Boolean" ->
                  /\ found = Some(JBool(TRUE)) => value = Integer(1)
                  /\ found = Some(JBool(FALSE)) => value = Integer(0)
                  /\ t # "bool" => value = Null
             [] col_type = "Json" ->
                  value = Text(to_string(found[1]))

(* C15: for a scalar column, extract_value gives Null for a missing field  *)
(* or JSON null whatever the declared type; for an Integer column          *)
(* Integer(n) for a JSON integer n and Null for a non-number; for a Real   *)
(* column Real for a JSON number and Null otherwise; for a Text column     *)
(* Text for a JSON string and Null otherwise; for a Boolean column         *)
(* Integer 1 for true, 0 for false and Null for any other type; for a Json *)
(* column the serialized subtree as Text.                                  *)
C15_ScalarCoercion ==
  (parse_fn = "extract_value" /\ parse_in.col_type # "Localized") =>
    /\ parse_out.ok
    /\ CoercedFrom(parse_out.rows[1]["value"], parse_in.col_type,
                   Member(parse_in.line.json, parse_in.key))

(* A Boolean column over the integer 0: Null, not Integer 0 *)
C15_Witness ==
  /\ parse_fn = "extract_value"
  /\ parse_in.col_type = "Boolean"
  /\ Member(parse_in.line.json, parse_in.key) = Some(JInt(0))
  /\ parse_out.rows[1]["value"] = Null

(* The value of the sub-column of language lang, from what was found under *)
(* the field of a Localized column                                         *)
LocalizedFrom(value, found, lang) ==
  IF found = None \/ found[1].t # "obj" THEN value = Null
  ELSE LET s == Member(found[1], lang)
       IN  /\ s = None => value = Null
           /\ (s # None /\ s[1].t = "str") => value = Text(s[1].v)

(* C16: for a non-junction schema parse_record emits exactly one row per   *)
(* line, and for each Localized column c and each language code L of       *)
(* LANGUAGES the row has a key c_L: Text(s) when the object under          *)
(* camelCase(c) has the string s under L, Null when L is absent there or   *)
(* the field is absent or not an object.                                   *)
C16_LocalizedExpansion ==
  (parse_fn = "parse_record" /\ parse_in.line.kind = "json") =>
    /\ parse_out.ok
    /\ Len(parse_out.rows) = 1
    /\ \A c \in DOMAIN ParseSchema.columns :
         LET col == ParseSchema.columns[c] IN
         col.col_type = "Localized" =>
           \A l \in DOMAIN LANGUAGES :
             LET sub == col.name \o "_" \o LANGUAGES[l] IN
             /\ sub \in DOMAIN parse_out.rows[1]
             /\ LocalizedFrom(parse_out.rows[1][sub],
                              Member(parse_in.line.json, to_camel_case(col.name)),
                              LANGUAGES[l])

(* A category named in two of the eight languages *)
C16_Witness ==
  /\ parse_fn = "parse_record"
  /\ parse_in.schema = "categories"
  /\ Member(parse_in.line.json, "name") =
       Some(JObj(<< KV("de", JStr("Schiff")), KV("en", JStr("Ship")) >>))
  /\ parse_out.rows[1]["name_en"] = Text("Ship")
  /\ parse_out.rows[1]["name_de"] = Text("Schiff")
  /\ parse_out.rows[1]["name_ja"] = Null

JunctionCall(kind) ==
  /\ parse_fn = "parse_junction_records"
  /\ parse_in.line.kind = "json"
  /\ ParseSchema.array_source.kind = kind

(* The columns of the schema other than those of the set *)
ColumnsBut(names) ==
  {ParseSchema.columns[c] : c \in {x \in DOMAIN ParseSchema.columns :
                                     ParseSchema.columns[x].name \notin names}}

(* The field of an element a column is read from: the override, or the     *)
(* camelCase of the column's name                                          *)
FieldOf(col) == IF col.json_field # None THEN col.json_field[1] ELSE to_camel_case(col.name)

(* The row carries the column as read from the element's field: a scalar   *)
(* column coerced to its type, a Localized column as one sub-column per    *)
(* language (the writer binds NULL for a sub-column the row does not have) *)
CarriesColumn(row, col, item, field) ==
  IF col.col_type = "Localized"
  THEN \A l \in DOMAIN LANGUAGES :
         LocalizedFrom(bound_value(row, col.name \o "_" \o LANGUAGES[l]),
                       Member(item, field), LANGUAGES[l])
  ELSE /\ col.name \in DOMAIN row
       /\ CoercedFrom(row[col.name], col.col_type, Member(item, field))

(* C17 as stated: for a Simple array-source schema, a line with integer    *)
(* _key k whose named field is an array of n elements yields exactly n     *)
(* rows in array order, each with the parent-id column equal to k and      *)
(* every other column read from the element's own field; a missing or      *)
(* non-array field yields no row and no error.                             *)
C17_Original ==
  (JunctionCall("Simple") /\ IsInt(Member(parse_in.line.json, "_key"))) =>
    LET src == ParseSchema.array_source
        k == Member(parse_in.line.json, "_key")[1].v
        field == Member(parse_in.line.json, src.array_field)
        rows == parse_out.rows
    IN  /\ parse_out.ok
        /\ ~IsArray(field) => rows = <<>>
        /\ IsArray(field) =>
             /\ Len(rows) = Len(field[1].v)
             /\ \A i \in DOMAIN rows :
                  /\ rows[i][src.parent_id_column] = Integer(k)
                  /\ \A col \in ColumnsBut({src.parent_id_column}) :
                       CarriesColumn(rows[i], col, field[1].v[i], FieldOf(col))

(* The rows of the activity of the given name, in the order emitted *)
RowsOf(rows, activity_column, name) ==
  SelectSeq(rows, LAMBDA r : r[activity_column] = Text(name))

Wrappers(items) ==
  SelectSeq(items, LAMBDA w : IsInt(Member(w, "_key")) /\ IsArray(Member(w, "_value")))

(* The innermost elements of the wrappers, each with its wrapper's key *)
Innermost(items) ==
  Flatten([w \in DOMAIN Wrappers(items) |->
             [e \in DOMAIN Member(Wrappers(items)[w], "_value")[1].v |->
                [level |-> Member(Wrappers(items)[w], "_key")[1].v,
                 item |-> Member(Wrappers(items)[w], "_value")[1].v[e]]]])

(* C19: for a DoubleNested schema, a line with integer _key k whose _value *)
(* is an array of wrappers yields one row per innermost element of every   *)
(* wrapper that has an integer _key and an array _value, in order, with    *)
(* the parent id k, the wrapper's key as level key and, for an integer     *)
(* element, that integer in the remaining column; other wrappers           *)
(* contribute no row.                                                      *)
C19_DoubleNestedRows ==
  (/\ JunctionCall("DoubleNested")
   /\ IsInt(Member(parse_in.line.json, "_key"))
   /\ IsArray(Member(parse_in.line.json, "_value"))) =>
    LET src == ParseSchema.array_source
        k == Member(parse_in.line.json, "_key")[1].v
        inner == Innermost(Member(parse_in.line.json, "_value")[1].v)
        rows == parse_out.rows
    IN  /\ parse_out.ok
        /\ Len(rows) = Len(inner)
        /\ \A i \in DOMAIN rows :
             /\ rows[i][src.parent_id_column] = Integer(k)
             /\ rows[i][src.level_key_column] = Integer(inner[i].level)
             /\ \A col \in ColumnsBut({src.parent_id_column, src.level_key_column}) :
                  inner[i].item.t = "int" => rows[i][col.name] = Integer(inner[i].item.v)

(* {_key: 9, _value: [{_key: 0, _value: [11, 22]}, {_key: 2}]}: two rows,   *)
(* none for the wrapper without _value                                     *)
C19_Witness ==
  /\ JunctionCall("DoubleNested")
  /\ Member(parse_in.line.json, "_key") = Some(JInt(9))
  /\ IsArray(Member(parse_in.line.json, "_value"))
  /\ Len(Member(parse_in.line.json, "_value")[1].v) = 2
  /\ parse_out.rows =
       << [type_id |-> Integer(9), mastery_level |-> Integer(0),
           certificate_id |-> Integer(11)],
          [type_id |-> Integer(9), mastery_level |-> Integer(0),
           certificate_id |-> Integer(22)] >>

(* C20: for a SimpleIntArray schema, a line with integer _key k yields     *)
(* exactly one row (parent-id column k, value column v) for each integer   *)
(* element v of the named array, in array order, and nothing else.         *)
C20_SimpleIntArrayRows ==
  (/\ JunctionCall("SimpleIntArray")
   /\ IsInt(Member(parse_in.line.json, "_key"))
   /\ IsArray(Member(parse_in.line.json, ParseSchema.array_source.array_field))) =>
    LET src == ParseSchema.array_source
        k == Member(parse_in.line.json, "_key")[1].v
        ints == SelectSeq(Member(parse_in.line.json, src.array_field)[1].v,
                          LAMBDA item : item.t = "int")
    IN  /\ parse_out.ok
        /\ parse_out.rows =
             [i \in DOMAIN ints |->
                (src.parent_id_column :> Integer(k)) @@ (src.value_column :> Integer(ints[i].v))]

(* {_key: 5, pins: [100, "300"]}: one row, for the integer *)
C20_Witness ==
  /\ JunctionCall("SimpleIntArray")
  /\ Member(parse_in.line.json, "_key") = Some(JInt(5))
  /\ Member(parse_in.line.json, "pins") = Some(JArr(<< JInt(100), JStr("300") >>))
  /\ parse_out.rows = << [schematic_id |-> Integer(5), pin_type_id |-> Integer(100)] >>

(***************************************************************************)
(* Properties of two runs of the convert command                           *)
(***************************************************************************)
(* The number of rows of every table of the database *)
RowCounts(c) == [t \in DOMAIN c.rows |-> Len(c.rows[t])]

(* The convert command has run twice on the same input directory with the  *)
(* same filters, each time with no file at the output path                 *)
RanTwice ==
  /\ command = "convert"
  /\ wpc = "done"
  /\ previous # None
  /\ previous[1].output_db = EmptyDatabase(FALSE)
  /\ output_db = EmptyDatabase(FALSE)

StorageType(col_type) ==
  IF col_type \in {"Integer", "Boolean"} THEN "INTEGER"
  ELSE IF col_type = "Real" THEN "REAL"
  ELSE "TEXT"

(* How many columns of the statement a declared column gives *)
Width(col) == IF col.col_type = "Localized" THEN Len(LANGUAGES) ELSE 1

RECURSIVE Offset(_, _)
(* How many columns of the statement the declared columns before i give *)
Offset(columns, i) ==
  IF i = 1 THEN 0 ELSE Offset(columns, i - 1) + Width(columns[i - 1])

(* C22: for every schema, generate_create_table emits in declared column   *)
(* order one column definition per non-Localized column, of storage type   *)
(* INTEGER (Integer, Boolean), REAL (Real) or TEXT (Text, Json), NOT NULL  *)
(* exactly when the column is not nullable and PRIMARY KEY exactly when it *)
(* is named id; one TEXT column c_L per language code L for a Localized    *)
(* column c; and one FOREIGN KEY clause per declared foreign key.          *)
C22_CreateTableColumns ==
  parse_fn = "generate_create_table" =>
    LET schema == ParseSchema
        ddl == parse_out
    IN  /\ ddl.table = schema.name
        /\ Len(ddl.columns) =
             Offset(schema.columns, Len(schema.columns))
             + Width(schema.columns[Len(schema.columns)])
        /\ \A i \in DOMAIN schema.columns :
             LET col == schema.columns[i]
                 at == Offset(schema.columns, i)
             IN  IF col.col_type = "Localized"
                 THEN \A l \in DOMAIN LANGUAGES :
                        /\ ddl.columns[at + l].name = col.name \o "_" \o LANGUAGES[l]
                        /\ ddl.columns[at + l].sql_type = "TEXT"
                 ELSE /\ ddl.columns[at + 1].name = col.name
                      /\ ddl.columns[at + 1].sql_type = StorageType(col.col_type)
                      /\ ddl.columns[at + 1].not_null <=> ~col.nullable
                      /\ ddl.columns[at + 1].pk <=> col.name = "id"
        /\ Len(ddl.foreign_keys) = Len(schema.foreign_keys)
        /\ \A f \in DOMAIN schema.foreign_keys :
             /\ ddl.foreign_keys[f].column = schema.foreign_keys[f].column
             /\ ddl.foreign_keys[f].references_table =
                  schema.foreign_keys[f].references_table
             /\ ddl.foreign_keys[f].references_column =
                  schema.foreign_keys[f].references_column

(* The statement for types: id INTEGER PRIMARY KEY NOT NULL first, name_en *)
(* and name_de among its TEXT columns, a FOREIGN KEY (group_id)            *)
(* REFERENCES groups(id)                                                   *)
C22_Witness ==
  /\ parse_fn = "generate_create_table"
  /\ parse_in.schema = "types"
  /\ parse_out.columns[1] =
       [name |-> "id", sql_type |-> "INTEGER", pk |-> TRUE, not_null |-> TRUE]
  /\ \E i, j \in DOMAIN parse_out.columns :
       /\ i < j
       /\ parse_out.columns[i].name = "name_en"
       /\ parse_out.columns[j].name = "name_de"
       /\ parse_out.columns[j].sql_type = "TEXT"
  /\ \E f \in DOMAIN parse_out.foreign_keys :
       parse_out.foreign_keys[f] =
         [column |-> "group_id", references_table |-> "groups",
          references_column |-> "id"]

EndsWith(s, suffix) ==
  Len(s) >= Len(suffix) /\ SubSeq(s, Len(s) - Len(suffix) + 1, Len(s)) = suffix

(* The columns of the schema that a foreign key is declared on *)
FkColumns(schema) ==
  {schema.foreign_keys[f].column : f \in DOMAIN schema.foreign_keys}

(* The indexes the rule of C23 asks for: [columns, unique], with the       *)
(* foreign key or the column each stands for                               *)
IndexesAskedFor(schema, name_rule(_)) ==
  {[for |-> << "fk", f >>, columns |-> << schema.foreign_keys[f].column >>,
    unique |-> FALSE] : f \in DOMAIN schema.foreign_keys}
  \cup
  {[for |-> << "name", i >>, columns |-> << schema.columns[i].name \o "_en" >>,
    unique |-> FALSE] :
     i \in {j \in DOMAIN schema.columns :
              /\ schema.columns[j].col_type = "Localized"
              /\ name_rule(schema.columns[j].name)}}
  \cup
  (IF schema.array_source.kind # "None" /\ Len(schema.foreign_keys) = 2
   THEN {[for |-> << "composite", 0 >>,
          columns |-> << schema.foreign_keys[1].column, schema.foreign_keys[2].column >>,
          unique |-> TRUE]}
   ELSE {})
  \cup
  {[for |-> << "filter", i >>, columns |-> << schema.columns[i].name >>,
    unique |-> FALSE] :
     i \in {j \in DOMAIN schema.columns :
              LET n == schema.columns[j].name IN
              /\ n \notin FkColumns(schema)
              /\ \/ n \in {"published", "deleted", "activity", "security_status"}
                 \/ starts_with(n, "is_")
                 \/ starts_with(n, "visible_")}}

(* The statements are exactly the indexes asked for, one statement each *)
EmitsExactly(idxs, asked) ==
  /\ Len(idxs) = Cardinality(asked)
  /\ \A a \in asked :
       Cardinality({k \in DOMAIN idxs :
                      /\ idxs[k].columns = a.columns
                      /\ idxs[k].unique = a.unique})
       = Cardinality({b \in asked : b.columns = a.columns /\ b.unique = a.unique})

(* C23 as stated: for every schema generate_indexes emits exactly one      *)
(* index per foreign-key column; one index on c_en for every Localized     *)
(* column c that is named name or whose name ends in _name; one composite  *)
(* unique index over the two foreign-key columns when the schema is a      *)
(* junction table with exactly two foreign keys; and one index for each    *)
(* non-foreign-key column named published, deleted, activity or            *)
(* security_status or whose name starts with is_ or visible_.              *)
C23_Original ==
  parse_fn = "generate_indexes" =>
    /\ \A k \in DOMAIN parse_out : parse_out[k].table = parse_in.schema
    /\ EmitsExactly(parse_out,
                    IndexesAskedFor(ParseSchema,
                                    LAMBDA n : n = "name" \/ EndsWith(n, "_name")))

RECURSIVE Words(_)
(* The words of a snake_case name *)
Words(s) ==
  LET at == {i \in 1..Len(s) : SubSeq(s, i, i) = "_"}
  IN  IF at = {} THEN << s >>
      ELSE LET i == CHOOSE i \in at : \A j \in at : i <= j
           IN  << SubSeq(s, 1, i - 1) >> \o Words(SubSeq(s, i + 1, Len(s)))

Capitalised(w) ==
  IF w = "" THEN "" ELSE to_ascii_uppercase(SubSeq(w, 1, 1)) \o SubSeq(w, 2, Len(w))

RECURSIVE Joined(_, _)
(* The words from the k-th on, each capitalised, a last word id as ID *)
Joined(ws, k) ==
  IF k > Len(ws) THEN ""
  ELSE (IF k = Len(ws) /\ ws[k] = "id" THEN "ID" ELSE Capitalised(ws[k]))
       \o Joined(ws, k + 1)

(* The camelCase form of a column name, a trailing _id as ID *)
CamelCase(s) == LET ws == Words(s) IN ws[1] \o Joined(ws, 2)

(* The field the rule of C24 names for a scalar column *)
SourceField(schema, col) ==
  IF col.json_field # None THEN col.json_field[1]
  ELSE IF schema.array_source.kind = "None" /\ col.name = "id" THEN "_key"
  ELSE CamelCase(col.name)

(* The scalar columns of the schema being parsed, but those of the set *)
ScalarColumnsBut(names) ==
  {col \in ColumnsBut(names) : col.col_type # "Localized"}

C25_Original ==
  /\ (pc = "done" /\ op = "resolve_includes") =>
       \A seed \in HashSeeds :
         ret = resolve_includes(arg_include[1], BucketOrder(seed))
  /\ (pc = "done" /\ op = "resolve_excludes") =>
       /\ \A seed \in HashSeeds :
            ret = resolve_excludes(arg_exclude[1], BucketOrder(seed))
       /\ ret = resolve_excludes(arg_exclude[1], table_names)

(***************************************************************************)
(* Properties of the batches and of the progress reports of import_table   *)
(***************************************************************************)
(* The INSERT events of the table: one for each batch flushed *)
FlushesOf(name) ==
  SelectSeq(log, LAMBDA e : e.stmt = "INSERT" /\ e.table = name)

(* The progress reports import_table made for the table *)
ReportsOf(name) == SelectSeq(progress, LAMBDA r : r.label = name)

RECURSIVE RowsFlushed(_, _)
RowsFlushed(flushes, k) ==
  IF k = 0 THEN 0 ELSE RowsFlushed(flushes, k - 1) + flushes[k].n

(* C26 as stated: during import_table the progress observer is invoked     *)
(* exactly once after every batch flush, the flush of the final partial    *)
(* batch included, each time with the cumulative number of rows inserted   *)
(* so far.                                                                 *)
C26_Original ==
  \A m \in DOMAIN imported :
    imported[m].ret.ok =>
      LET flushes == FlushesOf(imported[m].table)
          reports == ReportsOf(imported[m].table)
      IN  /\ Len(reports) = Len(flushes)
          /\ \A k \in DOMAIN reports : reports[k].current = RowsFlushed(flushes, k)

(* C30 as stated: every progress report made by import_table satisfies     *)
(* current <= total: the number of rows inserted so far never exceeds the  *)
(* total passed as line_count, for simple tables and for junction tables   *)
(* alike.                                                                  *)
C30_Original ==
  \A i \in DOMAIN progress :
    progress[i].label \in Range(table_names) => progress[i].current <= progress[i].total

(* The rows the parser emitted for the lines import_table has read *)
RowsParsed ==
  EmittedRows(Schema(table_i), SubSeq(Lines, 1, line_no - 1))

(* C29: during import_table the pending batch never holds BATCH_SIZE rows  *)
(* or more between two lines; it is inserted and emptied exactly when it   *)
(* reaches BATCH_SIZE rows, and once more at the end of the file if it is  *)
(* not empty (never when empty); every parsed row is inserted exactly      *)
(* once, in parse order; and the count returned is the number of rows      *)
(* inserted.                                                               *)
C29_BatchesOfBatchSize ==
  /\ Len(batch) < BATCH_SIZE
  /\ wpc = "lines" =>
       LET name == tables[table_i]
           flushes == FlushesOf(name)
           parsed == RowsParsed
           before == Len(conn.rows[name])
       IN  /\ \A k \in DOMAIN flushes : flushes[k].n = BATCH_SIZE
           /\ count = Len(flushes) * BATCH_SIZE
           /\ count + Len(batch) = Len(parsed)
           /\ Len(flushes) = Len(parsed) \div BATCH_SIZE
           /\ batch = SubSeq(parsed, count + 1, Len(parsed))
           /\ Len(tx[1]) = before + count
           /\ \A i \in 1..count : Stores(tx[1][before + i], parsed[i])
  /\ \A m \in DOMAIN imported :
       LET name == imported[m].table
           schema == get_table(name)[1]
           file == FileLines(schema)
           flushes == FlushesOf(name)
       IN  (imported[m].ret.ok /\ file # None) =>
             LET emitted == EmittedRows(schema, file[1])
                 held == conn.rows[name]
                 before == Len(held) - Len(emitted)
             IN  /\ imported[m].ret.n = Len(emitted)
                 /\ imported[m].ret.n = RowsFlushed(flushes, Len(flushes))
                 /\ before >= 0
                 /\ \A i \in DOMAIN emitted : Stores(held[before + i], emitted[i])
                 /\ \A k \in DOMAIN flushes :
                      /\ flushes[k].n > 0
                      /\ k < Len(flushes) => flushes[k].n = BATCH_SIZE
                 /\ Len(flushes) = (Len(emitted) + BATCH_SIZE - 1) \div BATCH_SIZE

(* A file of one row more than a batch is imported: a full batch is        *)
(* inserted while the lines are read, the last row at the end of the file  *)
C29_Witness ==
  /\ wpc = "done"
  /\ result.ok
  /\ \E m \in DOMAIN imported :
       /\ imported[m].ret = ConvertOk(BATCH_SIZE + 1)
       /\ FlushesOf(imported[m].table) =
            << Event("INSERT", imported[m].table, BATCH_SIZE),
               Event("INSERT", imported[m].table, 1) >>
       /\ Len(conn.rows[imported[m].table]) = BATCH_SIZE + 1

(***************************************************************************)
(* The columns of a row, of the INSERT and of the CREATE TABLE             *)
(***************************************************************************)
(* C28 as stated: for every schema of the registry, simple or junction     *)
(* with any array source, the key set of every row the parser emits is the *)
(* column list of the table's INSERT statement (get_column_names), which   *)
(* is the column list of its CREATE TABLE statement; so no emitted value   *)
(* is dropped when the row is bound and no column is NULL merely because   *)
(* the row has no key of its name, the Localized columns of junction       *)
(* tables included.                                                        *)
C28_Original ==
  /\ (parse_fn \in {"parse_record", "parse_junction_records"} /\ parse_out.ok) =>
       \A i \in DOMAIN parse_out.rows :
         DOMAIN parse_out.rows[i] = Range(get_column_names(ParseSchema))
  /\ parse_fn = "generate_create_table" =>
       [k \in DOMAIN parse_out.columns |-> parse_out.columns[k].name]
         = get_column_names(ParseSchema)
====
